---------------------------- MODULE Spec2Model ----------------------------
(***************************************************************************)
(* A model of rustid's x86 CPU identification (src/src/cpuid).             *)
(*                                                                         *)
(* The hardware is the record hw (what CPUID returns for every leaf,       *)
(* whether EFLAGS.ID can be toggled, whether DIV leaves the flags alone);  *)
(* the program is Cpu::new, run one field initialiser at a time, followed  *)
(* by free x86_cpuid / x86_cpuid_count calls.  The pure parts              *)
(* (CpuArch::find and its tables, CpuBrand::from, the signature decoding)  *)
(* are operators, exercised by specifications of their own that draw the   *)
(* arguments from bounded sets.                                            *)
(*                                                                         *)
(* A u32 is the pair <<hi, lo>> of its two 16-bit halves, because leaf     *)
(* numbers such as 0x8000_0001 do not fit TLC's integers.                  *)
(***************************************************************************)
EXTENDS Integers, Sequences, FiniteSets, TLC

VARIABLES
    hw,         \* the processor: CPUID data and the two flag behaviours
    pc,         \* position of the program
    queries,    \* every x86_cpuid / x86_cpuid_count call made so far, in order
    cpu,        \* the fields of the Cpu value computed so far
    ncalls,     \* free x86_cpuid calls made after Cpu::new
    args,       \* arguments of the pure function under test
    ret,        \* its result
    ports,      \* every outb / outw the program has executed, in order
    shown       \* what display_model_string returned and probed, <<>> before

vars == <<hw, pc, queries, cpu, ncalls, args, ret, ports, shown>>

-----------------------------------------------------------------------------
(* u32 arithmetic on <<hi, lo>>                                            *)

U32(hi, lo) == <<hi, lo>>

Zero32 == U32(0, 0)

Lt32(a, b) == a[1] < b[1] \/ (a[1] = b[1] /\ a[2] < b[2])

Pow2(n) == 2 ^ n

\* w >> n, for 0 <= n < 32
Shr32(w, n) ==
    IF n >= 16
    THEN U32(0, w[1] \div Pow2(n - 16))
    ELSE U32(w[1] \div Pow2(n),
             (w[2] \div Pow2(n)) + (w[1] % Pow2(n)) * Pow2(16 - n))

\* w & mask for a mask below 2^16 of the form 2^k - 1: an ordinary number
Low32(w, mask) == w[2] % (mask + 1)

\* (w & (1 << bit)) != 0
Bit32(w, bit) == Low32(Shr32(w, bit), 1) = 1

\* w.to_le_bytes()
LeBytes(w) == << w[2] % 256, w[2] \div 256, w[1] % 256, w[1] \div 256 >>

\* the u32 whose little-endian bytes are b[i], b[i+1], b[i+2], b[i+3]
WordAt(b, i) == U32(b[i + 2] + 256 * b[i + 3], b[i] + 256 * b[i + 1])

-----------------------------------------------------------------------------
(* bytes and strings                                                       *)

\* the printable ASCII characters 32..95 and 97..126 (a string of the
\* language cannot hold byte 96, which the modelled hardware never returns)
AsciiLow ==
    << " ", "!", "\"", "#", "$", "%", "&", "'", "(", ")", "*", "+",
       ",", "-", ".", "/", "0", "1", "2", "3", "4", "5", "6", "7",
       "8", "9", ":", ";", "<", "=", ">", "?", "@", "A", "B", "C",
       "D", "E", "F", "G", "H", "I", "J", "K", "L", "M", "N", "O",
       "P", "Q", "R", "S", "T", "U", "V", "W", "X", "Y", "Z", "[",
       "\\", "]", "^", "_" >>

AsciiHigh ==
    << "a", "b", "c", "d", "e", "f", "g", "h", "i", "j", "k", "l",
       "m", "n", "o", "p", "q", "r", "s", "t", "u", "v", "w", "x",
       "y", "z", "{", "|", "}", "~" >>

\* b as char
Chr(b) == IF b < 96 THEN AsciiLow[b - 31] ELSE AsciiHigh[b - 96]

\* the string made of the bytes of bs, in order
AsStr(bs) ==
    CHOOSE r \in
        { LET upto[i \in 0..Len(b)] ==
                  IF i = 0 THEN "" ELSE upto[i - 1] \o Chr(b[i])
          IN  upto[Len(b)] : b \in {bs} } : TRUE

\* the non-zero bytes of bs, in order (for &b in bytes { if b != 0 { push } })
NonZero(bs) == SelectSeq(bs, LAMBDA b : b # 0)

\* heapless String<N>::push_str: all of s, or nothing when s does not fit
PushStr(cap, s) == IF Len(s) <= cap THEN s ELSE ""

-----------------------------------------------------------------------------
(* leaves and CpuInfo                                                      *)

LEAF_0 == U32(0, 0)
LEAF_1 == U32(0, 1)
LEAF_7 == U32(0, 7)
EXT_LEAF_0 == U32(32768, 0)
EXT_LEAF_1 == U32(32768, 1)
EXT_LEAF_2 == U32(32768, 2)
EXT_LEAF_3 == U32(32768, 3)
EXT_LEAF_4 == U32(32768, 4)

UNK == "Unknown"

CpuInfo(a, b, c, d) == [eax |-> a, ebx |-> b, ecx |-> c, edx |-> d]

\* CpuInfo::default()
CpuInfoDefault == CpuInfo(Zero32, Zero32, Zero32, Zero32)

-----------------------------------------------------------------------------
(* the processor                                                           *)

\* __cpuid(leaf) / __cpuid_count(leaf, sub_leaf): what the instruction
\* returns.  The data of a leaf is there whether or not leaf 0 or leaf
\* 0x8000_0000 announces the leaf, so a query of an unannounced leaf reads it.
HwCpuid(leaf, sub_leaf) ==
    CASE leaf = LEAF_0 ->
            CpuInfo(hw.max_leaf, WordAt(hw.vendor, 1),
                    WordAt(hw.vendor, 9), WordAt(hw.vendor, 5))
      [] leaf = LEAF_1 -> hw.leaf1
      [] leaf = LEAF_7 -> IF sub_leaf = 0 THEN hw.leaf7 ELSE CpuInfoDefault
      [] leaf = EXT_LEAF_0 -> CpuInfo(hw.max_ext, Zero32, Zero32, Zero32)
      [] leaf = EXT_LEAF_1 -> hw.ext1
      [] leaf = EXT_LEAF_2 ->
            CpuInfo(WordAt(hw.brand, 1), WordAt(hw.brand, 5),
                    WordAt(hw.brand, 9), WordAt(hw.brand, 13))
      [] leaf = EXT_LEAF_3 ->
            CpuInfo(WordAt(hw.brand, 17), WordAt(hw.brand, 21),
                    WordAt(hw.brand, 25), WordAt(hw.brand, 29))
      [] leaf = EXT_LEAF_4 ->
            CpuInfo(WordAt(hw.brand, 33), WordAt(hw.brand, 37),
                    WordAt(hw.brand, 41), WordAt(hw.brand, 45))
      [] OTHER -> hw.egg

\* fns::has_cpuid: true on x86_64; on x86, whether the toggle of EFLAGS.ID
\* persisted
has_cpuid == IF hw.arch = "x86_64" THEN TRUE ELSE hw.id_flag

\* fns::is_cyrix: false on x86_64; on x86, whether DIV left the flags alone
is_cyrix == IF hw.arch = "x86_64" THEN FALSE ELSE hw.div_keeps_flags

\* fns::is_ac_flag_supported: true on x86_64; on x86, whether the toggle of
\* EFLAGS.AC persisted
is_ac_flag_supported == IF hw.arch = "x86_64" THEN TRUE ELSE hw.ac_flag

\* fns::is_386
is_386 == ~is_ac_flag_supported

\* fns::is_486
is_486 == is_ac_flag_supported /\ ~has_cpuid

\* x86_cpuid_count; its value is the call as the record kept in queries:
\* exec tells whether the CPUID instruction was executed
x86_cpuid_count(leaf, sub_leaf) ==
    IF ~has_cpuid
    THEN [leaf |-> leaf, sub |-> sub_leaf, exec |-> FALSE,
          res |-> CpuInfoDefault]
    ELSE [leaf |-> leaf, sub |-> sub_leaf, exec |-> TRUE,
          res |-> HwCpuid(leaf, sub_leaf)]

\* an x86_cpuid without the has_cpuid test
X86CpuidUnguarded(leaf) ==
    [leaf |-> leaf, sub |-> 0, exec |-> TRUE, res |-> HwCpuid(leaf, 0)]

\* x86_cpuid: __cpuid(leaf) is __cpuid_count(leaf, 0)
x86_cpuid(leaf) ==
    IF ~has_cpuid
    THEN [leaf |-> leaf, sub |-> 0, exec |-> FALSE, res |-> CpuInfoDefault]
    ELSE [leaf |-> leaf, sub |-> 0, exec |-> TRUE, res |-> HwCpuid(leaf, 0)]

\* Every function below that queries the processor is a record
\* [v |-> its value, q |-> the x86_cpuid calls it made, in order].
\* A local of the code that is used more than once is bound once, as the
\* element of a one-element set: CHOOSE r \in { e : x \in {local} } : TRUE
\* is e with x standing for the value of the local.

max_leaf ==
    CHOOSE r \in { [v |-> c.res.eax, q |-> <<c>>] :
                       c \in {x86_cpuid(LEAF_0)} } : TRUE

max_extended_leaf ==
    CHOOSE r \in { [v |-> c.res.eax, q |-> <<c>>] :
                       c \in {x86_cpuid(EXT_LEAF_0)} } : TRUE

-----------------------------------------------------------------------------
(* vendor strings and brands (brand.rs)                                    *)

VENDOR_AMD == "AuthenticAMD"
VENDOR_CENTAUR == "CentaurHauls"
VENDOR_CYRIX == "CyrixInstead"
VENDOR_DMP == "Vortex86 SoC"
VENDOR_HYGON == "HygonGenuine"
VENDOR_INTEL == "GenuineIntel"
VENDOR_NEXGEN == "NexGenDriven"
VENDOR_NSC == "Geode by NSC"
VENDOR_RISE == "RiseRiseRise"
VENDOR_SIS == "SiS SiS SiS "
VENDOR_TRANSMETA == "GenuineTMx86"
VENDOR_UMC == "UMC UMC UMC "
VENDOR_ZHAOXIN == "  Shanghai  "

\* every VENDOR_* constant of brand.rs
VendorConstants ==
    { VENDOR_AMD, VENDOR_CENTAUR, VENDOR_CYRIX, VENDOR_DMP, VENDOR_HYGON,
      VENDOR_INTEL, VENDOR_NEXGEN, VENDOR_NSC, VENDOR_RISE, VENDOR_SIS,
      VENDOR_TRANSMETA, VENDOR_UMC, VENDOR_ZHAOXIN }

\* enum CpuBrand, by the names of its variants
CpuBrand ==
    { "AMD", "Cyrix", "DMP", "Hygon", "IDT", "Intel", "NationalSemiconductor",
      "NexGen", "Rise", "SiS", "Transmeta", "Umc", "Unknown", "Via", "Zhaoxin" }

\* a conversion whose final arm takes the string for Intel's
CpuBrand_from_OtherIsIntel(brand) ==
    CASE brand = VENDOR_AMD -> "AMD"
      [] brand = VENDOR_CYRIX -> "Cyrix"
      [] brand = VENDOR_DMP -> "DMP"
      [] brand = VENDOR_HYGON -> "Hygon"
      [] brand = VENDOR_NEXGEN -> "NexGen"
      [] brand = VENDOR_NSC -> "NationalSemiconductor"
      [] brand = VENDOR_RISE -> "Rise"
      [] brand = VENDOR_SIS -> "SiS"
      [] brand = VENDOR_TRANSMETA -> "Transmeta"
      [] brand = VENDOR_UMC -> "Umc"
      [] OTHER -> "Intel"

\* impl From<&str> for CpuBrand
CpuBrand_from(brand) ==
    CASE brand = VENDOR_AMD -> "AMD"
      [] brand = VENDOR_CYRIX -> "Cyrix"
      [] brand = VENDOR_DMP -> "DMP"
      [] brand = VENDOR_HYGON -> "Hygon"
      [] brand = VENDOR_INTEL -> "Intel"
      [] brand = VENDOR_NEXGEN -> "NexGen"
      [] brand = VENDOR_NSC -> "NationalSemiconductor"
      [] brand = VENDOR_RISE -> "Rise"
      [] brand = VENDOR_SIS -> "SiS"
      [] brand = VENDOR_TRANSMETA -> "Transmeta"
      [] brand = VENDOR_UMC -> "Umc"
      [] OTHER -> "Unknown"

\* heapless String<12>: the strings of at most 12 bytes; from_str fails on
\* the others
FitsString12(s) == Len(s) <= 12

\* impl From<String<12>> for CpuBrand: Self::from(brand.as_str())
CpuBrand_from_String12(brand) == CpuBrand_from(brand)

\* CpuBrand::to_brand_name
to_brand_name(brand) ==
    CASE brand = "AMD" -> "AMD"
      [] brand = "Cyrix" -> "Cyrix/IBM/ST/TI"
      [] brand = "DMP" -> "DM&P"
      [] brand = "Hygon" -> "Hygon"
      [] brand = "IDT" -> "IDT"
      [] brand = "Intel" -> "Intel"
      [] brand = "NationalSemiconductor" -> "National Semiconductor"
      [] brand = "NexGen" -> "NexGen"
      [] brand = "Rise" -> "Rise"
      [] brand = "SiS" -> "SiS"
      [] brand = "Transmeta" -> "Transmeta"
      [] brand = "Umc" -> "UMC"
      [] brand = "Via" -> "Via"
      [] brand = "Zhaoxin" -> "Zhaoxin"
      [] brand = "Unknown" -> UNK

\* CpuBrand::vendor_str
CpuBrand_vendor_str ==
    IF ~has_cpuid /\ is_cyrix
    THEN [v |-> PushStr(12, VENDOR_CYRIX), q |-> <<>>]
    ELSE CHOOSE r \in
             { [v |-> AsStr(NonZero(LeBytes(c.res.ebx) \o LeBytes(c.res.edx)
                                        \o LeBytes(c.res.ecx))),
                q |-> <<c>>] : c \in {x86_cpuid(LEAF_0)} } : TRUE

\* a vendor_str that takes the first zero byte for the end of the string
fns_vendor_str_ZeroTerminates ==
    IF ~has_cpuid /\ is_cyrix
    THEN [v |-> PushStr(12, VENDOR_CYRIX), q |-> <<>>]
    ELSE CHOOSE r \in
             { [v |-> AsStr(SubSeq(bs, 1,
                          CHOOSE n \in 0..Len(bs) :
                              /\ \A i \in 1..n : bs[i] # 0
                              /\ n < Len(bs) => bs[n + 1] = 0)),
                q |-> <<c>>] :
                 c \in {x86_cpuid(LEAF_0)},
                 bs \in {LeBytes(x86_cpuid(LEAF_0).res.ebx)
                             \o LeBytes(x86_cpuid(LEAF_0).res.edx)
                             \o LeBytes(x86_cpuid(LEAF_0).res.ecx)} } : TRUE

\* fns::vendor_str
fns_vendor_str ==
    IF ~has_cpuid /\ is_cyrix
    THEN [v |-> PushStr(12, VENDOR_CYRIX), q |-> <<>>]
    ELSE CHOOSE r \in
             { [v |-> AsStr(NonZero(LeBytes(c.res.ebx) \o LeBytes(c.res.edx)
                                        \o LeBytes(c.res.ecx))),
                q |-> <<c>>] : c \in {x86_cpuid(LEAF_0)} } : TRUE

\* CpuBrand::detect
CpuBrand_detect ==
    CHOOSE r \in
        { [v |-> CpuBrand_from(IF vs.v = "" /\ is_cyrix THEN VENDOR_CYRIX
                                                        ELSE vs.v),
           q |-> vs.q] : vs \in {CpuBrand_vendor_str} } : TRUE

-----------------------------------------------------------------------------
(* feature lookups (fns.rs)                                                *)

\* has_feature without the maximum-basic-leaf gate
has_feature_NoBasicGate(leaf, register, bit) ==
    CHOOSE r \in
        { LET ext == ~Lt32(leaf, EXT_LEAF_0)
          IN  IF ext /\ Lt32(me.v, leaf)
              THEN [v |-> FALSE, q |-> me.q]
              ELSE [v |-> Bit32(c.res[register], bit),
                    q |-> Append(IF ext THEN me.q ELSE <<>>, c)] :
            me \in {max_extended_leaf}, c \in {x86_cpuid(leaf)} } : TRUE

\* has_feature(leaf, register, bit); register is the name of a CpuInfo field
has_feature(leaf, register, bit) ==
    CHOOSE r \in
        { LET ext == ~Lt32(leaf, EXT_LEAF_0)
          IN  IF ext /\ Lt32(me.v, leaf)
              THEN [v |-> FALSE, q |-> me.q]
              ELSE IF Lt32(ml.v, leaf)
              THEN [v |-> FALSE, q |-> (IF ext THEN me.q ELSE <<>>) \o ml.q]
              ELSE [v |-> Bit32(c.res[register], bit),
                    q |-> Append((IF ext THEN me.q ELSE <<>>) \o ml.q, c)] :
            me \in {max_extended_leaf}, ml \in {max_leaf},
            c \in {x86_cpuid(leaf)} } : TRUE

has_fpu == has_feature(LEAF_1, "edx", 0)

has_tsc == has_feature(LEAF_1, "edx", 4)

has_mmx == has_feature(LEAF_1, "edx", 23)

has_cmov == has_feature(LEAF_1, "edx", 15)

has_cx8 == has_feature(LEAF_1, "edx", 8)

has_sse == has_feature(LEAF_1, "edx", 25)

has_sse2 == has_feature(LEAF_1, "edx", 26)

has_ht == has_feature(LEAF_1, "edx", 28)

has_sse3 == has_feature(LEAF_1, "ecx", 0)

has_ssse3 == has_feature(LEAF_1, "ecx", 9)

has_fma == has_feature(LEAF_1, "ecx", 12)

has_cx16 == has_feature(LEAF_1, "ecx", 13)

has_sse41 == has_feature(LEAF_1, "ecx", 19)

has_sse42 == has_feature(LEAF_1, "ecx", 20)

has_popcnt == has_feature(LEAF_1, "ecx", 23)

has_avx == has_feature(LEAF_1, "ecx", 28)

has_f16c == has_feature(LEAF_1, "ecx", 29)

has_rdrand == has_feature(LEAF_1, "ecx", 30)

has_avx2 == has_feature(LEAF_7, "ebx", 5)

has_avx512f == has_feature(LEAF_7, "ebx", 16)

has_bmi1 == has_feature(LEAF_7, "ebx", 3)

has_bmi2 == has_feature(LEAF_7, "ebx", 8)

\* a has_sse4a that tests the bit on every brand
has_sse4a_NoVendorCheck == has_feature(EXT_LEAF_1, "ecx", 6)

has_sse4a ==
    CHOOSE r \in
        { IF d.v # "AMD" THEN [v |-> FALSE, q |-> d.q]
                         ELSE [v |-> f.v, q |-> d.q \o f.q] :
            d \in {CpuBrand_detect},
            f \in {has_feature(EXT_LEAF_1, "ecx", 6)} } : TRUE

has_amd64 == has_feature(EXT_LEAF_1, "edx", 29)

has_3dnow_plus == has_feature(EXT_LEAF_1, "edx", 30)

has_3dnow == has_feature(EXT_LEAF_1, "edx", 31)

\* the has_* tests of get_feature_list with the names they push, in the
\* order of the function
FeatureTests ==
    << [name |-> "FPU", has |-> has_fpu],
       [name |-> "TSC", has |-> has_tsc],
       [name |-> "CMPXCHG8B", has |-> has_cx8],
       [name |-> "CMPXCHG16B", has |-> has_cx16],
       [name |-> "CMOV", has |-> has_cmov],
       [name |-> "MMX", has |-> has_mmx],
       [name |-> "3DNow!", has |-> has_3dnow],
       [name |-> "3DNow+", has |-> has_3dnow_plus],
       [name |-> "HT", has |-> has_ht],
       [name |-> "AMD64", has |-> has_amd64],
       [name |-> "SSE", has |-> has_sse],
       [name |-> "SSE2", has |-> has_sse2],
       [name |-> "SSE3", has |-> has_sse3],
       [name |-> "SSE4A", has |-> has_sse4a],
       [name |-> "SSE4.1", has |-> has_sse41],
       [name |-> "SSE4.2", has |-> has_sse42],
       [name |-> "SSSE3", has |-> has_ssse3],
       [name |-> "AVX", has |-> has_avx],
       [name |-> "AVX2", has |-> has_avx2],
       [name |-> "AVX512F", has |-> has_avx512f],
       [name |-> "FMA", has |-> has_fma],
       [name |-> "BMI1", has |-> has_bmi1],
       [name |-> "BMI2", has |-> has_bmi2],
       [name |-> "RDRAND", has |-> has_rdrand],
       [name |-> "POPCNT", has |-> has_popcnt],
       [name |-> "F16C", has |-> has_f16c] >>

\* capacity of the heapless Vec behind FeatureList
FeatureListCap == 64

\* get_feature_list: the names of the tests that hold, in order; a push on
\* a full heapless Vec fails and is ignored, so the first FeatureListCap of
\* them stay
\* a get_feature_list whose vector holds sixteen names
get_feature_list_Short ==
    CHOOSE r \in
        { LET held == SelectSeq(tests, LAMBDA t : t.has.v)
              calls[i \in 0..Len(tests)] ==
                  IF i = 0 THEN <<>> ELSE calls[i - 1] \o tests[i].has.q
              kept == IF Len(held) <= 16 THEN Len(held) ELSE 16
          IN  [v |-> [i \in 1..kept |-> held[i].name],
               q |-> calls[Len(tests)]] : tests \in {FeatureTests} } : TRUE

get_feature_list ==
    CHOOSE r \in
        { LET held == SelectSeq(tests, LAMBDA t : t.has.v)
              calls[i \in 0..Len(tests)] ==
                  IF i = 0 THEN <<>> ELSE calls[i - 1] \o tests[i].has.q
              kept == IF Len(held) <= FeatureListCap THEN Len(held)
                      ELSE FeatureListCap
          IN  [v |-> [i \in 1..kept |-> held[i].name],
               q |-> calls[Len(tests)]] : tests \in {FeatureTests} } : TRUE

-----------------------------------------------------------------------------
(* signature, model string, core count, easter egg (cpu.rs, fns.rs)        *)

\* fns::is_overdrive: the processor type field, bits 12-13 of leaf-1 EAX,
\* is 1
fns_is_overdrive ==
    CHOOSE r \in { [v |-> Low32(Shr32(c.res.eax, 12), 3) = 1, q |-> <<c>>] :
                       c \in {x86_cpuid(LEAF_1)} } : TRUE

\* fns::get_brand_id: the low byte of leaf-1 EBX
fns_get_brand_id ==
    CHOOSE r \in { [v |-> Low32(c.res.ebx, 255), q |-> <<c>>] :
                       c \in {x86_cpuid(LEAF_1)} } : TRUE

\* a decoding that masks the extended family with 0xF
DecodeSignature_NarrowExtFamily(eax) ==
    LET stepping == Low32(eax, 15)
        model == Low32(Shr32(eax, 4), 15)
        family == Low32(Shr32(eax, 8), 15)
        extended_model == Low32(Shr32(eax, 16), 15)
        extended_family == Low32(Shr32(eax, 20), 15)
    IN  [extended_family |-> extended_family, family |-> family,
         extended_model |-> extended_model, model |-> model,
         stepping |-> stepping,
         display_family |-> IF family = 15 THEN family + extended_family
                                           ELSE family,
         display_model |-> IF family = 6 \/ family = 15
                           THEN extended_model * 16 + model ELSE model]

\* a decoding that adds the extended model for every family
DecodeSignature_ModelAlwaysExtended(eax) ==
    LET stepping == Low32(eax, 15)
        model == Low32(Shr32(eax, 4), 15)
        family == Low32(Shr32(eax, 8), 15)
        extended_model == Low32(Shr32(eax, 16), 15)
        extended_family == Low32(Shr32(eax, 20), 255)
    IN  [extended_family |-> extended_family, family |-> family,
         extended_model |-> extended_model, model |-> model,
         stepping |-> stepping,
         display_family |-> IF family = 15 THEN family + extended_family
                                           ELSE family,
         display_model |-> extended_model * 16 + model]

\* the field extraction of CpuSignature::detect, on the EAX word of leaf 1
DecodeSignature(eax) ==
    LET stepping == Low32(eax, 15)
        model == Low32(Shr32(eax, 4), 15)
        family == Low32(Shr32(eax, 8), 15)
        extended_model == Low32(Shr32(eax, 16), 15)
        extended_family == Low32(Shr32(eax, 20), 255)
    IN  [extended_family |-> extended_family, family |-> family,
         extended_model |-> extended_model, model |-> model,
         stepping |-> stepping,
         display_family |-> IF family = 15 THEN family + extended_family
                                           ELSE family,
         display_model |-> IF family = 6 \/ family = 15
                           THEN extended_model * 16 + model ELSE model]

\* CpuSignature::default()
CpuSignatureDefault ==
    [extended_family |-> 0, family |-> 0, extended_model |-> 0, model |-> 0,
     stepping |-> 0, display_family |-> 0, display_model |-> 0,
     is_overdrive |-> FALSE]

\* CpuSignature::detect
CpuSignature_detect ==
    CHOOSE r \in
        { [v |-> [extended_family |-> d.extended_family, family |-> d.family,
                  extended_model |-> d.extended_model, model |-> d.model,
                  stepping |-> d.stepping,
                  display_family |-> d.display_family,
                  display_model |-> d.display_model,
                  is_overdrive |-> od.v],
           q |-> <<c>> \o od.q] :
            c \in {x86_cpuid(LEAF_1)},
            d \in {DecodeSignature(x86_cpuid(LEAF_1).res.eax)},
            od \in {fns_is_overdrive} } : TRUE

\* char::is_whitespace on a byte taken as a char
IsWhite(b) == b \in {9, 10, 11, 12, 13, 32, 133, 160}

\* str::trim, on the bytes of the string: from the first to the last byte
\* that is not white space
Trim(bs) ==
    CHOOSE r \in
        { IF keep = {} THEN <<>>
          ELSE SubSeq(b, CHOOSE i \in keep : \A j \in keep : i <= j,
                         CHOOSE i \in keep : \A j \in keep : j <= i) :
            b \in {bs}, keep \in {{ i \in 1..Len(bs) : ~IsWhite(bs[i]) }} } : TRUE

\* the sixteen bytes of a CpuInfo in the order eax, ebx, ecx, edx, each
\* register low byte first
RegBytes(res) ==
    LeBytes(res.eax) \o LeBytes(res.ebx) \o LeBytes(res.ecx)
        \o LeBytes(res.edx)

\* a model_string that reads the three brand leaves whatever the maximum
\* extended leaf is
model_string_NoGate ==
    CHOOSE r \in
        { [v |-> PushStr(64, AsStr(Trim(NonZero(
                          RegBytes(c2.res) \o RegBytes(c3.res)
                              \o RegBytes(c4.res))))),
           q |-> me.q \o <<c2, c3, c4>>] :
            me \in {max_extended_leaf}, c2 \in {x86_cpuid(EXT_LEAF_2)},
            c3 \in {x86_cpuid(EXT_LEAF_3)},
            c4 \in {x86_cpuid(EXT_LEAF_4)} } : TRUE

\* Cpu::model_string
model_string ==
    CHOOSE r \in
        { IF Lt32(me.v, EXT_LEAF_4)
          THEN [v |-> PushStr(64, "Unknown"), q |-> me.q]
          ELSE [v |-> PushStr(64, AsStr(Trim(NonZero(
                          RegBytes(c2.res) \o RegBytes(c3.res)
                              \o RegBytes(c4.res))))),
                q |-> me.q \o <<c2, c3, c4>>] :
            me \in {max_extended_leaf}, c2 \in {x86_cpuid(EXT_LEAF_2)},
            c3 \in {x86_cpuid(EXT_LEAF_3)},
            c4 \in {x86_cpuid(EXT_LEAF_4)} } : TRUE

\* a logical_cores that returns the byte of leaf 1 as it is, as the older
\* Cpu::logical_cores of lib.rs does
logical_cores_RawByte ==
    CHOOSE r \in
        { [v |-> Low32(Shr32(c.res.ebx, 16), 255), q |-> Append(ml.q, c)] :
            ml \in {max_leaf}, c \in {x86_cpuid(LEAF_1)} } : TRUE

\* fns::logical_cores
logical_cores ==
    CHOOSE r \in
        { IF Lt32(ml.v, LEAF_1)
          THEN [v |-> 1, q |-> ml.q]
          ELSE [v |-> IF count = 0 THEN 1 ELSE count, q |-> Append(ml.q, c)] :
            ml \in {max_leaf}, c \in {x86_cpuid(LEAF_1)},
            count \in {Low32(Shr32(x86_cpuid(LEAF_1).res.ebx, 16), 255)} } : TRUE

\* the non-standard leaves of Cpu::easter_egg
EGG_LEAF_AMD == U32(36863, 65535)
EGG_LEAF_RISE == U32(0, 23118)

\* Cpu::easter_egg; None is <<>>, Some(s) is <<s>>
\* an EggLeaf that reads the AMD leaf on Intel too
EggLeaf_IntelToo(brand) ==
    CASE brand \in {"AMD", "Intel"} -> EGG_LEAF_AMD
      [] brand = "Rise" -> EGG_LEAF_RISE
      [] OTHER -> LEAF_1

EggLeaf(brand) ==
    CASE brand = "AMD" -> EGG_LEAF_AMD
      [] brand = "Rise" -> EGG_LEAF_RISE
      [] OTHER -> LEAF_1

easter_egg ==
    CHOOSE r \in
        { CHOOSE e \in
              { [v |-> IF trimmed # <<>> THEN <<AsStr(trimmed)>> ELSE <<>>,
                 q |-> IF EggLeaf(d.v) # LEAF_1 THEN Append(d.q, c)
                                                ELSE d.q] :
                  c \in {x86_cpuid(EggLeaf(d.v))},
                  trimmed \in {IF EggLeaf(d.v) # LEAF_1
                               THEN Trim(NonZero(RegBytes(
                                        x86_cpuid(EggLeaf(d.v)).res)))
                               ELSE <<>>} } : TRUE :
            d \in {CpuBrand_detect} } : TRUE

\* the names of Cpu::intel_brand_index, with (R) for the registered sign
CELERON == "Intel(R) Celeron(R) processor"
XEON == "Intel(R) Xeon(R) processor"
XEON_MP == "Intel(R) Xeon(R) processor MP"

\* the match brand_id { .. } of Cpu::intel_brand_index, <<>> for None
BrandIndexName(brand_id, family, model, stepping) ==
    CASE brand_id \in {1, 10, 20} -> <<CELERON>>
      [] brand_id \in {2, 4} -> <<"Intel(R) Pentium(R) III processor">>
      [] brand_id = 3 ->
            IF <<family, model, stepping>> = <<6, 11, 1>>
            THEN <<CELERON>> ELSE <<"Intel(R) Pentium(R) III Xeon">>
      [] brand_id = 6 -> <<"Mobile Intel(R) Pentium(R) III processor-M">>
      [] brand_id \in {7, 15, 19, 23} ->
            <<"Mobile Intel(R) Celeron(R) processor">>
      [] brand_id \in {8, 9} -> <<"Intel(R) Pentium(R) 4 processor">>
      [] brand_id = 11 ->
            IF <<family, model, stepping>> = <<15, 1, 3>>
            THEN <<XEON_MP>> ELSE <<XEON>>
      [] brand_id = 12 -> <<XEON_MP>>
      [] brand_id = 14 ->
            IF <<family, model, stepping>> = <<15, 1, 3>>
            THEN <<XEON>>
            ELSE <<"Mobile Intel(R) Pentium(R) 4 processor-M">>
      [] brand_id \in {17, 21} -> <<"Mobile Genuine Intel(R) processor">>
      [] brand_id = 18 -> <<"Intel(R) Celeron(R) M processor">>
      [] brand_id = 22 -> <<"Intel(R) Pentium(R) M processor">>
      [] OTHER -> <<>>

\* Cpu::intel_brand_index of the Cpu value c: the brand id is read from the
\* processor, the signature from c
intel_brand_index(c) ==
    CHOOSE r \in
        { [v |-> IF c.signature.family > 15
                    \/ (c.signature.family = 15 /\ c.signature.model >= 3)
                 THEN <<>>
                 ELSE BrandIndexName(b.v, c.signature.family,
                                     c.signature.model, c.signature.stepping),
           q |-> b.q] : b \in {fns_get_brand_id} } : TRUE

\* the flag tests of the last arm of display_model_string, in the order the
\* short-circuit operators run them; on x86_64 the functions are constants
\* and test nothing
LastArmTests(c) ==
    IF hw.arch = "x86_64" THEN <<>>
    ELSE (IF c.signature = CpuSignatureDefault THEN <<>>
                                               ELSE <<"has_cpuid">>)
         \o (IF c.signature = CpuSignatureDefault \/ ~has_cpuid
             THEN <<"is_cyrix">>
                  \o (IF is_cyrix
                      THEN <<"is_ac_flag_supported">>
                           \o (IF is_ac_flag_supported THEN <<"has_cpuid">>
                                                       ELSE <<>>)
                      ELSE <<>>)
                  \o (IF is_cyrix /\ is_486 THEN <<>>
                                            ELSE <<"is_ac_flag_supported">>)
             ELSE <<>>)

\* the last arm of the match of display_model_string
LastArmName(c) ==
    IF c.signature = CpuSignatureDefault \/ ~has_cpuid
    THEN IF is_cyrix /\ is_486 THEN "Cyrix/IBM 486"
         ELSE IF is_386 THEN "386 Class CPU"
         ELSE "486 Class CPU"
    ELSE "Unknown"

\* the match self.arch.micro_arch { .. } of display_model_string on the
\* CpuArch a; q holds the CPUID calls, tests the flag tests
ArchName(c, a) ==
    CASE a.micro_arch = "Am486" ->
            [v |-> CASE a.code_name = "Am486DX2" -> "AMD 486 DX2"
                     [] a.code_name = "Am486X2WB" ->
                            "AMD 486 DX2 with Write-Back Cache"
                     [] a.code_name = "Am486DX4" -> "AMD 486 DX4"
                     [] a.code_name = "Am486DX4WB" ->
                            "AMD 486 DX4 with Write-Back Cache"
                     [] OTHER -> "486 Class CPU",
             q |-> <<>>, tests |-> <<>>]
      [] a.micro_arch \in {"SSA5", "K5"} ->
            [v |-> "AMD K5", q |-> <<>>, tests |-> <<>>]
      [] a.micro_arch = "I486" ->
            [v |-> CASE a.code_name = "i80486DX" -> "Intel 486 DX"
                     [] a.code_name = "RapidCAD" -> "Intel RapidCAD"
                     [] a.code_name = "i80486DX-50" -> "Intel 486 DX-50"
                     [] a.code_name = "i80486SX" -> "Intel 486 SX"
                     [] a.code_name = "i80486DX2" -> "Intel 486 DX2"
                     [] a.code_name = "i80486SL" -> "Intel 486 SL"
                     [] a.code_name = "i80486SX2" -> "Intel 486 SX2"
                     [] a.code_name = "i80486DX2WB" ->
                            "Intel 486 DX2 with Write-Back Cache"
                     [] a.code_name = "i80486DX4" -> "Intel 486 DX4"
                     [] a.code_name = "i80486DX4WB" ->
                            "Intel 486 DX4 with Write-Back Cache"
                     [] OTHER -> "486 Class CPU",
             q |-> <<>>, tests |-> <<>>]
      [] a.micro_arch = "P5" ->
            [v |-> IF has_mmx.v THEN "Intel Pentium with MMX"
                                ELSE "Intel Pentium",
             q |-> has_mmx.q, tests |-> <<>>]
      [] a.micro_arch = "PentiumPro" ->
            [v |-> "Intel Pentium Pro", q |-> <<>>, tests |-> <<>>]
      [] a.micro_arch = "PentiumII" ->
            [v |-> "Intel Pentium II", q |-> <<>>, tests |-> <<>>]
      [] a.micro_arch = "PentiumIII" ->
            [v |-> "Intel Pentium III", q |-> <<>>, tests |-> <<>>]
      [] a.micro_arch = "Cy5x86" ->
            [v |-> "5x86", q |-> <<>>, tests |-> <<>>]
      [] a.micro_arch = "M1" ->
            [v |-> IF has_cx8.v THEN "6x86L" ELSE "6x86",
             q |-> has_cx8.q, tests |-> <<>>]
      [] a.micro_arch = "M2" ->
            [v |-> "6x86MX (MII)", q |-> <<>>, tests |-> <<>>]
      [] a.micro_arch = "U5S" ->
            [v |-> "UMC Green CPU 486 U5-SX", q |-> <<>>, tests |-> <<>>]
      [] a.micro_arch = "U5D" ->
            [v |-> "UMC Green CPU 486 U5-DX", q |-> <<>>, tests |-> <<>>]
      [] OTHER ->
            [v |-> LastArmName(c), q |-> <<>>, tests |-> LastArmTests(c)]

\* a display_model_string without the Intel brand-index step
display_model_string_NoBrandIndex(c) ==
    CHOOSE r \in
        { IF a.model # "Unknown"
          THEN [v |-> a.model, q |-> <<>>, tests |-> <<>>]
          ELSE [v |-> n.v, q |-> n.q, tests |-> n.tests] :
            a \in {c.arch[1]}, n \in {ArchName(c, c.arch[1])} } : TRUE

\* Cpu::display_model_string of the Cpu value c
display_model_string(c) ==
    CHOOSE r \in
        { IF a.model # "Unknown"
          THEN [v |-> a.model, q |-> <<>>, tests |-> <<>>]
          ELSE IF a.vendor_string = VENDOR_INTEL /\ bi.v # <<>>
          THEN [v |-> bi.v[1], q |-> bi.q, tests |-> <<>>]
          ELSE [v |-> n.v,
                q |-> (IF a.vendor_string = VENDOR_INTEL THEN bi.q ELSE <<>>)
                          \o n.q,
                tests |-> n.tests] :
            a \in {c.arch[1]}, bi \in {intel_brand_index(c)},
            n \in {ArchName(c, c.arch[1])} } : TRUE

-----------------------------------------------------------------------------
(* microarchitecture tables (micro_arch.rs)                                *)

\* the pattern _ of a match arm; every other guard is the set of the values
\* its pattern accepts
Wild == {-1}

\* CpuArch::find, the CpuBrand::DMP arm
DmpRows ==
    << [g |-> <<{0}, {6}, {0}, {1}, {1}>>, ma |-> "VortexDX3", code |-> "Vortex86DX3", tech |-> <<>>],
       [g |-> <<Wild, Wild, Wild, Wild, Wild>>, ma |-> "Unknown", code |-> UNK, tech |-> <<>>] >>

\* CpuArch::find, the CpuBrand::Cyrix arm
CyrixRows ==
    << [g |-> <<{0}, {4}, {0}, {9}, Wild>>, ma |-> "FiveX86", code |-> "5x86", tech |-> <<>>],
       [g |-> <<{0}, {5}, {0}, {2, 3}, Wild>>, ma |-> "M1", code |-> "M1", tech |-> <<>>],
       [g |-> <<{0}, {5}, {0}, {4}, Wild>>, ma |-> "MediaGx", code |-> "MediaGX GXm", tech |-> <<"350nm">>],
       [g |-> <<{0}, {6}, {0}, {0}, Wild>>, ma |-> "M2", code |-> "M2", tech |-> <<>>],
       [g |-> <<Wild, Wild, Wild, Wild, Wild>>, ma |-> "Unknown", code |-> UNK, tech |-> <<>>] >>

\* CpuArch::find, the CpuBrand::NationalSemiconductor arm
NscRows ==
    << [g |-> <<{0}, {5}, {0}, {4}, Wild>>, ma |-> "Geode", code |-> "GX1", tech |-> <<"180nm">>],
       [g |-> <<{0}, {5}, {0}, {9}, Wild>>, ma |-> "Geode", code |-> "GX2", tech |-> <<"180nm">>],
       [g |-> <<{0}, {5}, {0}, {10}, Wild>>, ma |-> "Geode", code |-> "GX3", tech |-> <<>>],
       [g |-> <<Wild, Wild, Wild, Wild, Wild>>, ma |-> "Unknown", code |-> UNK, tech |-> <<>>] >>

\* CpuArch::find, the CpuBrand::Rise arm
RiseRows ==
    << [g |-> <<{0}, {5}, {0}, {0}, Wild>>, ma |-> "MP6", code |-> "Kirin", tech |-> <<"250nm">>],
       [g |-> <<{0}, {5}, {0}, {2}, Wild>>, ma |-> "MP6Shrink", code |-> "Lynx", tech |-> <<"180nm">>],
       [g |-> <<{0}, {5}, {0}, {8}, Wild>>, ma |-> "MP6Shrink", code |-> UNK, tech |-> <<>>],
       [g |-> <<Wild, Wild, Wild, Wild, Wild>>, ma |-> "Unknown", code |-> UNK, tech |-> <<>>] >>

\* CpuArch::find, the CpuBrand::Umc | CpuBrand::Transmeta arm
UmcTransmetaRows ==
    << [g |-> <<{0}, {4}, {0}, {1}, Wild>>, ma |-> "U5D", code |-> "U5D", tech |-> <<"600nm">>],
       [g |-> <<{0}, {4}, {0}, {2}, Wild>>, ma |-> "U5S", code |-> "U5S", tech |-> <<"600nm">>],
       [g |-> <<{0}, {5}, {0}, {4}, Wild>>, ma |-> "Crusoe", code |-> "Crusoe", tech |-> <<"130nm">>],
       [g |-> <<{0}, {15}, {0}, {2, 3}, Wild>>, ma |-> "Efficeon", code |-> "Efficeon", tech |-> <<>>],
       [g |-> <<Wild, Wild, Wild, Wild, Wild>>, ma |-> "Unknown", code |-> UNK, tech |-> <<>>] >>

\* the match of CpuArch::find_amd
AmdRows ==
    << [g |-> <<{0}, {4}, {0}, {3}, Wild>>, ma |-> "Am486", code |-> "Am486DX2", tech |-> <<>>],
       [g |-> <<{0}, {4}, {0}, {7}, Wild>>, ma |-> "Am486", code |-> "Am486X2WB", tech |-> <<>>],
       [g |-> <<{0}, {4}, {0}, {8}, Wild>>, ma |-> "Am486", code |-> "Am486DX4", tech |-> <<>>],
       [g |-> <<{0}, {4}, {0}, {9}, Wild>>, ma |-> "Am486", code |-> "Am486DX4WB", tech |-> <<>>],
       [g |-> <<{0}, {4}, {0}, {14}, Wild>>, ma |-> "Am5x86", code |-> "Am5x86", tech |-> <<>>],
       [g |-> <<{0}, {4}, {0}, {15}, Wild>>, ma |-> "Am5x86", code |-> "Am5x86WB", tech |-> <<>>],
       [g |-> <<{0}, {5}, {0}, {0}, Wild>>, ma |-> "SSA5", code |-> "SSA5", tech |-> <<"350nm">>],
       [g |-> <<{0}, {5}, {0}, 1..3, Wild>>, ma |-> "K5", code |-> "5k86", tech |-> <<"350nm">>],
       [g |-> <<{0}, {5}, {0}, {6}, Wild>>, ma |-> "K6", code |-> "K6", tech |-> <<"300nm">>],
       [g |-> <<{0}, {5}, {0}, {7}, Wild>>, ma |-> "K6", code |-> "Little Foot", tech |-> <<"250nm">>],
       [g |-> <<{0}, {5}, {0}, {8}, Wild>>, ma |-> "K6", code |-> "Chompers/CXT (K6-2)", tech |-> <<>>],
       [g |-> <<{0}, {5}, {0}, {9}, Wild>>, ma |-> "K6", code |-> "Sharptooth (K6-III)", tech |-> <<>>],
       [g |-> <<{0}, {5}, {0}, {10}, Wild>>, ma |-> "K7", code |-> "Thoroughbred (Geode NX)", tech |-> <<"130nm">>],
       [g |-> <<{0}, {5}, {0}, {13}, Wild>>, ma |-> "K6", code |-> "Sharptooth (K6-2+/K6-III+)", tech |-> <<>>],
       [g |-> <<{0}, {6}, {0}, {1}, Wild>>, ma |-> "K7", code |-> "Argon", tech |-> <<"250nm">>],
       [g |-> <<{0}, {6}, {0}, {2}, Wild>>, ma |-> "K7", code |-> "Pluto", tech |-> <<"180nm">>],
       [g |-> <<{0}, {6}, {0}, {3}, Wild>>, ma |-> "K7", code |-> "Spitfire", tech |-> <<>>],
       [g |-> <<{0}, {6}, {0}, {4}, Wild>>, ma |-> "K7", code |-> "Thunderbird", tech |-> <<>>],
       [g |-> <<{0}, {6}, {0}, {6}, Wild>>, ma |-> "K7", code |-> "Palomino", tech |-> <<>>],
       [g |-> <<{0}, {6}, {0}, {7}, Wild>>, ma |-> "K7", code |-> "Morgan", tech |-> <<>>],
       [g |-> <<{0}, {6}, {0}, {8}, Wild>>, ma |-> "K7", code |-> "Thoroughbred", tech |-> <<>>],
       [g |-> <<{0}, {6}, {0}, {10}, Wild>>, ma |-> "K7", code |-> "Thorton/Barton", tech |-> <<>>],
       [g |-> <<{0}, {15}, {0}, {13}, {0}>>, ma |-> "K8", code |-> "NewCastle", tech |-> <<"130nm">>],
       [g |-> <<{0}, {15}, {2}, {3}, {2}>>, ma |-> "K8", code |-> "Toledo", tech |-> <<"90nm">>],
       [g |-> <<{0}, {15}, {2}, {15}, {2}>>, ma |-> "K8", code |-> "Venice", tech |-> <<"90nm">>],
       [g |-> <<{0}, {15}, {3}, {7}, {2}>>, ma |-> "K8", code |-> "San Diego", tech |-> <<"90nm">>],
       [g |-> <<{0}, {15}, {4}, {15}, {2}>>, ma |-> "K8", code |-> "Manilla", tech |-> <<"90nm">>],
       [g |-> <<{0}, {15}, {4}, {12}, {2}>>, ma |-> "K8", code |-> "Windsor", tech |-> <<"90nm">>],
       [g |-> <<{0}, {15}, {5}, {15}, {2}>>, ma |-> "K8", code |-> "Orleans", tech |-> <<"90nm">>],
       [g |-> <<{0}, {15}, {6}, {12}, {2}>>, ma |-> "K8", code |-> "Brisbane", tech |-> <<"65nm">>],
       [g |-> <<{0}, {15}, {7}, {15}, {2}>>, ma |-> "K8", code |-> "Sparta", tech |-> <<"65nm">>],
       [g |-> <<{5}, {15}, Wild, Wild, Wild>>, ma |-> "Bobcat", code |-> "Zacate", tech |-> <<"40nm">>],
       [g |-> <<{6}, {15}, {0}, {0, 1}, Wild>>, ma |-> "Bulldozer", code |-> "Zambezi", tech |-> <<"32nm">>],
       [g |-> <<{6}, {15}, {0, 1}, {2}, Wild>>, ma |-> "Piledriver", code |-> "Vishera", tech |-> <<"32nm">>],
       [g |-> <<{6}, {15}, {3}, {0, 8}, Wild>>, ma |-> "Steamroller", code |-> "Godavari", tech |-> <<"28nm">>],
       [g |-> <<{6}, {15}, {6, 7}, {0, 5}, Wild>>, ma |-> "Excavator", code |-> "Bristol Ridge/Carrizo", tech |-> <<"28nm">>],
       [g |-> <<{8}, {15}, {1}, {1}, {0}>>, ma |-> "Zen", code |-> "RavenRidge", tech |-> <<"14nm">>],
       [g |-> <<{10}, {15}, {2}, {1}, Wild>>, ma |-> "Zen3", code |-> "Vermeer", tech |-> <<"7nm">>],
       [g |-> <<{10}, {15}, {6}, {1}, {2}>>, ma |-> "Zen4", code |-> "Raphael", tech |-> <<"5nm">>],
       [g |-> <<{10}, {15}, {7}, {4}, {1}>>, ma |-> "Zen4", code |-> "Phoenix", tech |-> <<"4nm">>],
       [g |-> <<Wild, Wild, Wild, Wild, Wild>>, ma |-> "Unknown", code |-> UNK, tech |-> <<>>] >>

\* the match of CpuArch::find_centaur
CentaurRows ==
    << [g |-> <<{0}, {5}, {0}, {4}, Wild>>, ma |-> "Winchip", code |-> "C6", tech |-> <<"350nm">>],
       [g |-> <<{0}, {5}, {0}, {8}, {5}>>, ma |-> "Winchip2", code |-> "Winchip 2 (C2)", tech |-> <<"350nm">>],
       [g |-> <<{0}, {5}, {0}, {8}, {7}>>, ma |-> "Winchip2A", code |-> "Winchip 2A (W2A)", tech |-> <<"250nm">>],
       [g |-> <<{0}, {5}, {0}, {8}, {10}>>, ma |-> "Winchip2B", code |-> "Winchip 2B (W2B)", tech |-> <<"250nm">>],
       [g |-> <<{0}, {5}, {0}, {9}, Wild>>, ma |-> "Winchip3", code |-> "Winchip 3 (C3)", tech |-> <<"250nm">>],
       [g |-> <<{0}, {6}, {0}, {6}, Wild>>, ma |-> "Samuel", code |-> "Samuel (C5A)", tech |-> <<"180nm">>],
       [g |-> <<{0}, {6}, {0}, {7}, 0..7>>, ma |-> "Samuel2", code |-> "Samuel 2 (C5B)", tech |-> <<"150nm">>],
       [g |-> <<{0}, {6}, {0}, {7}, 8..15>>, ma |-> "Ezra", code |-> "Ezra (C5C)", tech |-> <<"130nm">>],
       [g |-> <<{0}, {6}, {0}, {8}, Wild>>, ma |-> "EzraT", code |-> "Ezra-T (C5N)", tech |-> <<"130nm">>],
       [g |-> <<{0}, {6}, {0}, {9}, 0..7>>, ma |-> "Nehemiah", code |-> "Nehemiah (C5XL)", tech |-> <<"130nm">>],
       [g |-> <<{0}, {6}, {0}, {9}, 8..15>>, ma |-> "NehemiahP", code |-> "Nehemiah+ (C5P)", tech |-> <<>>],
       [g |-> <<{0}, {6}, {0}, {10}, Wild>>, ma |-> "Esther", code |-> "Esther (C5J)", tech |-> <<"90nm">>],
       [g |-> <<{0}, {6}, {1}, 9..12, {8}>>, ma |-> "Isaiah", code |-> "Isaiah (CNS)", tech |-> <<>>],
       [g |-> <<{0}, {6}, {1}, {15}, Wild>>, ma |-> "Isaiah", code |-> "Isaiah (CN)", tech |-> <<"65nm">>],
       [g |-> <<{0}, {7}, {1}, {11}, {0}>>, ma |-> "Wudaokou", code |-> "WuDaoKou", tech |-> <<"28nm">>],
       [g |-> <<{0}, {7}, {3}, {11}, {0}>>, ma |-> "Lujiazui", code |-> "LuJiaZui", tech |-> <<"16nm">>],
       [g |-> <<Wild, Wild, Wild, Wild, Wild>>, ma |-> "Unknown", code |-> UNK, tech |-> <<>>] >>

\* the match of CpuArch::find_intel
IntelRows ==
    << [g |-> <<{0}, {4}, {0}, {0}, Wild>>, ma |-> "I486", code |-> "i80486DX", tech |-> <<>>],
       [g |-> <<{0}, {4}, {0}, {1}, Wild>>, ma |-> "I486", code |-> "i80486DX-50", tech |-> <<>>],
       [g |-> <<{0}, {4}, {0}, {2}, Wild>>, ma |-> "I486", code |-> "i80486SX", tech |-> <<>>],
       [g |-> <<{0}, {4}, {0}, {3}, Wild>>, ma |-> "I486", code |-> "i80486DX2", tech |-> <<>>],
       [g |-> <<{0}, {4}, {0}, {4}, Wild>>, ma |-> "I486", code |-> "i80486SL", tech |-> <<>>],
       [g |-> <<{0}, {4}, {0}, {5}, Wild>>, ma |-> "I486", code |-> "i80486SX2", tech |-> <<>>],
       [g |-> <<{0}, {4}, {0}, {7}, Wild>>, ma |-> "I486", code |-> "i80486DX2WB", tech |-> <<>>],
       [g |-> <<{0}, {4}, {0}, {8}, Wild>>, ma |-> "I486", code |-> "i80486DX4", tech |-> <<>>],
       [g |-> <<{0}, {4}, {0}, {9}, Wild>>, ma |-> "I486", code |-> "i80486DX4WB", tech |-> <<>>],
       [g |-> <<{0}, {5}, {0}, {0, 1}, Wild>>, ma |-> "P5", code |-> "P5", tech |-> <<"800nm">>],
       [g |-> <<{0}, {5}, {0}, {2}, Wild>>, ma |-> "P5", code |-> "P54C", tech |-> <<>>],
       [g |-> <<{0}, {5}, {0}, {3}, Wild>>, ma |-> "P5", code |-> "P24T", tech |-> <<"600nm">>],
       [g |-> <<{0}, {5}, {0}, {4}, Wild>>, ma |-> "P5MMX", code |-> "P55C", tech |-> <<"350nm">>],
       [g |-> <<{0}, {5}, {0}, {7}, Wild>>, ma |-> "P5MMX", code |-> "P54C", tech |-> <<"350nm">>],
       [g |-> <<{0}, {5}, {0}, {8}, Wild>>, ma |-> "P5MMX", code |-> "P55C", tech |-> <<"250nm">>],
       [g |-> <<{0}, {5}, {0}, {9, 10}, Wild>>, ma |-> "Lakemont", code |-> "Lakemont", tech |-> <<"32nm">>],
       [g |-> <<{0}, {6}, {0}, {1}, {1}>>, ma |-> "P6Pro", code |-> "P6", tech |-> <<>>],
       [g |-> <<{0}, {6}, {0}, {1}, {2}>>, ma |-> "P6Pro", code |-> "P6", tech |-> <<"600nm">>],
       [g |-> <<{0}, {6}, {0}, {1}, 6..9>>, ma |-> "P6Pro", code |-> "P6", tech |-> <<"350nm">>],
       [g |-> <<{0}, {6}, {0}, {3}, {2}>>, ma |-> "P6PentiumII", code |-> "P6T (Deschutes)", tech |-> <<"250nm">>],
       [g |-> <<{0}, {6}, {0}, 0..2, Wild>>, ma |-> "P6PentiumII", code |-> UNK, tech |-> <<>>],
       [g |-> <<{0}, {6}, {0}, {3}, Wild>>, ma |-> "P6PentiumII", code |-> "Klamath", tech |-> <<"350nm">>],
       [g |-> <<{0}, {6}, {0}, {4}, Wild>>, ma |-> "P6PentiumII", code |-> UNK, tech |-> <<>>],
       [g |-> <<{0}, {6}, {0}, {5}, {1}>>, ma |-> "P6PentiumII", code |-> "Deschutes", tech |-> <<"250nm">>],
       [g |-> <<{0}, {6}, {0}, {6}, Wild>>, ma |-> "P6PentiumII", code |-> "Dixon / Mendocino", tech |-> <<>>],
       [g |-> <<{0}, {6}, {0}, {7}, Wild>>, ma |-> "P6PentiumIII", code |-> "Katmai", tech |-> <<"250nm">>],
       [g |-> <<{0}, {6}, {0}, {8}, Wild>>, ma |-> "P6PentiumIII", code |-> "Coppermine", tech |-> <<"180nm">>],
       [g |-> <<{0}, {6}, {0}, {9}, {5}>>, ma |-> "P6PentiumIII", code |-> "Banias", tech |-> <<"130nm">>],
       [g |-> <<{0}, {6}, {0}, {10}, Wild>>, ma |-> "P6PentiumIII", code |-> "Coppermine T", tech |-> <<"180nm">>],
       [g |-> <<{0}, {6}, {0}, {11}, Wild>>, ma |-> "P6PentiumIII", code |-> "Tualatin", tech |-> <<"130nm">>],
       [g |-> <<{0}, {6}, {1}, {14}, {5}>>, ma |-> "Nehalem", code |-> "Lynnfield", tech |-> <<"45nm">>],
       [g |-> <<{0}, {6}, {2}, {10}, {7}>>, ma |-> "SandyBridge", code |-> "Sandy Bridge", tech |-> <<"32nm">>],
       [g |-> <<Wild, Wild, Wild, Wild, Wild>>, ma |-> "Unknown", code |-> UNK, tech |-> <<>>] >>


Accepts(g, v) == g = Wild \/ v \in g

\* a match whose arms leave the stepping pattern out
RowMatches_NoStepping(row, s) ==
    /\ Accepts(row.g[1], s.extended_family)
    /\ Accepts(row.g[2], s.family)
    /\ Accepts(row.g[3], s.extended_model)
    /\ Accepts(row.g[4], s.model)

\* the five patterns of the arm row all accept the fields of s
RowMatches(row, s) ==
    /\ Accepts(row.g[1], s.extended_family)
    /\ Accepts(row.g[2], s.family)
    /\ Accepts(row.g[3], s.extended_model)
    /\ Accepts(row.g[4], s.model)
    /\ Accepts(row.g[5], s.stepping)

\* a match takes the first arm, in source order, that matches: its index
\* from i on, or 0 when there is none
MatchingRows(rows, s) ==
    CHOOSE r \in { { i \in 1..Len(t) : RowMatches(t[i], sig) } :
                       t \in {rows}, sig \in {s} } : TRUE

\* a match that takes the last arm that matches
FirstMatch_TakesLast(rows, s) ==
    CHOOSE r \in
        { IF hits = {} THEN 0 ELSE CHOOSE i \in hits : \A j \in hits : j <= i :
            hits \in {MatchingRows(rows, s)} } : TRUE

FirstMatch(rows, s) ==
    CHOOSE r \in
        { IF hits = {} THEN 0 ELSE CHOOSE i \in hits : \A j \in hits : i <= j :
            hits \in {MatchingRows(rows, s)} } : TRUE

\* capacities of the heapless strings of CpuArch
ArchStringCap == 64
TechStringCap == 32

\* a CpuArch::new whose technology is a String<4>
CpuArch_new_Tech4(model, micro_arch, code_name, brand_name, vendor_string, technology) ==
    [panic |-> technology # <<>> /\ Len(technology[1]) > 4,
     model |-> PushStr(ArchStringCap, model),
     micro_arch |-> micro_arch,
     code_name |-> code_name,
     brand_name |-> PushStr(ArchStringCap, brand_name),
     vendor_string |-> PushStr(ArchStringCap, vendor_string),
     technology |-> technology]

\* CpuArch::new; panic tells that String::from_str(s).unwrap() failed on the
\* technology
CpuArch_new(model, micro_arch, code_name, brand_name, vendor_string, technology) ==
    [panic |-> technology # <<>> /\ Len(technology[1]) > TechStringCap,
     model |-> PushStr(ArchStringCap, model),
     micro_arch |-> micro_arch,
     code_name |-> code_name,
     brand_name |-> PushStr(ArchStringCap, brand_name),
     vendor_string |-> PushStr(ArchStringCap, vendor_string),
     technology |-> technology]

\* the value of a match over the arms rows, each arm calling brand_arch
MatchRows(rows, s, model, brand_name, vendor_string) ==
    CHOOSE r \in
        { IF i = 0
          THEN [panic |-> TRUE, model |-> "", micro_arch |-> "",
                code_name |-> "", brand_name |-> "", vendor_string |-> "",
                technology |-> <<>>]
          ELSE CpuArch_new(model, t[i].ma, t[i].code, brand_name,
                           vendor_string, t[i].tech) :
            t \in {rows}, i \in {FirstMatch(rows, s)} } : TRUE

\* CpuArch::find_amd
find_amd(model, s) == MatchRows(AmdRows, s, model, "AMD", VENDOR_AMD)

\* CpuArch::find_intel
find_intel(model, s) == MatchRows(IntelRows, s, model, "Intel", VENDOR_INTEL)

\* a lineage taken from the string: CpuBrand::from(VENDOR_CENTAUR)
CentaurBrand_ByString(s) == CpuBrand_from(VENDOR_CENTAUR)

\* the lineage find_centaur derives from the family
CentaurBrand(s) ==
    CASE s.family = 5 -> "IDT"
      [] s.family = 6 -> "Via"
      [] OTHER -> "Zhaoxin"

\* CpuArch::find_centaur
find_centaur(model, s, vendor_string) ==
    MatchRows(CentaurRows, s, model, to_brand_name(CentaurBrand(s)),
              vendor_string)

\* a find that takes the brand from the processor, not from vendor_string
find_DetectsBrand(model, s, vendor_string) ==
    CHOOSE r \in
        { CASE brand = "AMD" -> find_amd(model, s)
            [] brand = "Intel" -> find_intel(model, s)
            [] OTHER ->
                 CpuArch_new(model, "Unknown", UNK, name, vendor_string,
                             <<>>) :
            brand \in {CpuBrand_detect.v},
            name \in {to_brand_name(CpuBrand_detect.v)} } : TRUE

\* CpuArch::find
find(model, s, vendor_string) ==
    IF vendor_string = VENDOR_CENTAUR
    THEN find_centaur(model, s, vendor_string)
    ELSE CHOOSE r \in
             { CASE brand = "AMD" -> find_amd(model, s)
                 [] brand = "Intel" -> find_intel(model, s)
                 [] brand = "DMP" ->
                      MatchRows(DmpRows, s, model, name, vendor_string)
                 [] brand = "Cyrix" ->
                      MatchRows(CyrixRows, s, model, name, vendor_string)
                 [] brand = "NationalSemiconductor" ->
                      MatchRows(NscRows, s, model, name, vendor_string)
                 [] brand = "Rise" ->
                      MatchRows(RiseRows, s, model, name, vendor_string)
                 [] brand \in {"Umc", "Transmeta"} ->
                      MatchRows(UmcTransmetaRows, s, model, name,
                                vendor_string)
                 [] OTHER ->
                      CpuArch_new(model, "Unknown", UNK, name, vendor_string,
                                  <<>>) :
                 brand \in {CpuBrand_from(vendor_string)},
                 name \in {to_brand_name(CpuBrand_from(vendor_string))} } : TRUE

-----------------------------------------------------------------------------
(* the processors the program is run on                                    *)

\* On x86_64 no flag test is compiled in. On x86 a processor that lets
\* EFLAGS.ID be toggled is no 386: it lets EFLAGS.AC be toggled too.
Platforms ==
    { [arch |-> "x86_64", id_flag |-> TRUE, div_keeps_flags |-> FALSE,
       ac_flag |-> TRUE] }
    \cup { p \in [arch : {"x86"}, id_flag : BOOLEAN,
                  div_keeps_flags : BOOLEAN, ac_flag : BOOLEAN] :
               p.id_flag => p.ac_flag }

\* the twelve vendor bytes of leaf 0, in the order EBX, EDX, ECX:
\* "GenuineIntel", "AuthenticAMD", "CentaurHauls", "RiseRiseRise", a part
\* that reports no vendor, and a part that pads "VIA" with a zero byte in
\* each of the three words
HwVendors ==
    { <<71, 101, 110, 117, 105, 110, 101, 73, 110, 116, 101, 108>>,
      <<65, 117, 116, 104, 101, 110, 116, 105, 99, 65, 77, 68>>,
      <<67, 101, 110, 116, 97, 117, 114, 72, 97, 117, 108, 115>>,
      <<82, 105, 115, 101, 82, 105, 115, 101, 82, 105, 115, 101>>,
      <<0, 0, 0, 0, 0, 0, 0, 0, 0, 0, 0, 0>>,
      <<86, 73, 65, 0, 86, 73, 65, 0, 86, 73, 65, 0>> }

\* EAX of leaf 0: 0, 1, 7, and 0x8000_0001, a value at which the basic-leaf
\* comparison of has_feature lets a test of leaf 0x8000_0001 through
HwMaxLeafs == { U32(0, 0), U32(0, 1), U32(0, 7), U32(32768, 1) }

HwMaxExts == { Zero32, EXT_LEAF_1, EXT_LEAF_4 }

\* leaf 1: signature 0x000206A7 with brand id 0x0B, 8 logical processors
\* and every feature bit the program tests (ECX bits 0, 9, 12, 13, 19, 20,
\* 23, 28, 29, 30; EDX bits 0, 4, 8, 15, 23, 25, 26, 28); or signature
\* 0x00811F10 (processor type 1) with no brand id, a zero count and no
\* feature bit
HwLeaf1s ==
    { CpuInfo(U32(2, 1703), U32(8, 11),
              U32(28824, 12801),
              U32(5760, 33041)),
      CpuInfo(U32(129, 7952), Zero32, Zero32, Zero32) }

\* leaf 7: no feature bit, or EBX bits 3, 5, 8, 16 (BMI1, AVX2, BMI2,
\* AVX512F)
HwLeaf7s ==
    { CpuInfoDefault, CpuInfo(Zero32, U32(1, 296), Zero32, Zero32) }

\* leaf 0x8000_0001: no feature bit, or ECX bit 6 (SSE4A) and EDX bits 29,
\* 30, 31 (AMD64, 3DNow!+, 3DNow!)
HwExt1s ==
    { CpuInfoDefault,
      CpuInfo(Zero32, Zero32, U32(0, 64), U32(57344, 0)) }

\* the 48 bytes of leaves 0x8000_0002..4: "  Model X CPU @ 1GHz ", zero
\* bytes, three spaces, zero bytes
HwBrand ==
    <<32, 32, 77, 111, 100, 101, 108, 32, 88, 32, 67, 80, 85, 32, 64, 32,
    49, 71, 72, 122, 32, 0, 0, 0, 0, 0, 0, 0, 0, 0, 0, 0, 0, 0, 0, 0, 0,
    0, 0, 0, 32, 32, 32, 0, 0, 0, 0, 0>>

\* sixteen bytes of spaces, a tab and zero bytes
BlankEgg ==
    CpuInfo(WordAt(<<32, 32, 0, 0>>, 1), Zero32, WordAt(<<0, 9, 32, 0>>, 1),
            Zero32)

\* the data of the non-standard leaves: nothing, white space only, or
\* "IT'S HAMMER TIME"
HwEggs ==
    { CpuInfoDefault, BlankEgg,
      CpuInfo(WordAt(<<73, 84, 39, 83>>, 1), WordAt(<<32, 72, 65, 77>>, 1),
              WordAt(<<77, 69, 82, 32>>, 1), WordAt(<<84, 73, 77, 69>>, 1)) }

Hardware ==
    { [arch |-> p.arch, id_flag |-> p.id_flag,
       div_keeps_flags |-> p.div_keeps_flags, ac_flag |-> p.ac_flag,
       vendor |-> v, max_leaf |-> ml, max_ext |-> me, leaf1 |-> l1,
       leaf7 |-> l7, ext1 |-> e1, brand |-> HwBrand,
       egg |-> IF l7 # CpuInfoDefault
               THEN CHOOSE e \in HwEggs : e \notin {CpuInfoDefault, BlankEgg}
               ELSE IF e1 # CpuInfoDefault THEN BlankEgg
               ELSE CpuInfoDefault] :
        p \in Platforms, v \in HwVendors, ml \in HwMaxLeafs,
        me \in HwMaxExts, l1 \in HwLeaf1s, l7 \in HwLeaf7s, e1 \in HwExt1s }

\* the processor of the specifications that run no query
NoHardware ==
    [arch |-> "x86_64", id_flag |-> TRUE, div_keeps_flags |-> FALSE,
     ac_flag |-> TRUE,
     vendor |-> <<0, 0, 0, 0, 0, 0, 0, 0, 0, 0, 0, 0>>, max_leaf |-> Zero32,
     max_ext |-> Zero32, leaf1 |-> CpuInfoDefault, leaf7 |-> CpuInfoDefault,
     ext1 |-> CpuInfoDefault, brand |-> HwBrand, egg |-> CpuInfoDefault]

\* the Cpu value before any field is computed; arch is <<>> until
\* CpuArch::find has returned
NoCpu ==
    [model_arg |-> "", signature_arg |-> CpuSignatureDefault,
     vendor_arg |-> "", arch |-> <<>>, easter_egg |-> <<>>, brand_id |-> 0,
     threads |-> 0, signature |-> CpuSignatureDefault, features |-> <<>>]

-----------------------------------------------------------------------------
(* Cpu::new, one field initialiser at a time, then free queries            *)

\* number of free x86_cpuid / x86_cpuid_count calls after Cpu::new
MaxCalls == 2

\* the leaves and sub-leaves of the free calls
CallLeaves == { LEAF_0, LEAF_1, LEAF_7, EXT_LEAF_1, EGG_LEAF_AMD }
CallSubLeaves == { 0, 1 }

Init ==
    /\ hw \in Hardware
    /\ pc = "model_string"
    /\ queries = <<>>
    /\ cpu = NoCpu
    /\ ncalls = 0
    /\ args = <<>>
    /\ ret = <<>>
    /\ ports = <<>>
    /\ shown = <<>>

\* Self::model_string(), the first argument of CpuArch::find
NewModelString ==
    /\ pc = "model_string"
    /\ \E r \in {model_string} :
           /\ cpu' = [cpu EXCEPT !.model_arg = r.v]
           /\ queries' = queries \o r.q
    /\ pc' = "signature_arg"
    /\ UNCHANGED <<shown, ports, hw, ncalls, args, ret>>

\* CpuSignature::detect(), the second argument
NewSignatureArg ==
    /\ pc = "signature_arg"
    /\ \E r \in {CpuSignature_detect} :
           /\ cpu' = [cpu EXCEPT !.signature_arg = r.v]
           /\ queries' = queries \o r.q
    /\ pc' = "vendor_arg"
    /\ UNCHANGED <<shown, ports, hw, ncalls, args, ret>>

\* &fns::vendor_str(), the third argument
NewVendorStr ==
    /\ pc = "vendor_arg"
    /\ \E r \in {fns_vendor_str} :
           /\ cpu' = [cpu EXCEPT !.vendor_arg = r.v]
           /\ queries' = queries \o r.q
    /\ pc' = "arch"
    /\ UNCHANGED <<shown, ports, hw, ncalls, args, ret>>

\* arch: CpuArch::find(..)
NewArch ==
    /\ pc = "arch"
    /\ \E r \in {find(cpu.model_arg, cpu.signature_arg, cpu.vendor_arg)} :
           IF r.panic
           THEN pc' = "panicked" /\ cpu' = cpu
           ELSE pc' = "easter_egg" /\ cpu' = [cpu EXCEPT !.arch = <<r>>]
    /\ UNCHANGED <<shown, ports, hw, queries, ncalls, args, ret>>

\* easter_egg: Self::easter_egg()
NewEasterEgg ==
    /\ pc = "easter_egg"
    /\ \E r \in {easter_egg} :
           /\ cpu' = [cpu EXCEPT !.easter_egg = r.v]
           /\ queries' = queries \o r.q
    /\ pc' = "brand_id"
    /\ UNCHANGED <<shown, ports, hw, ncalls, args, ret>>

\* brand_id: fns::get_brand_id()
NewBrandId ==
    /\ pc = "brand_id"
    /\ \E r \in {fns_get_brand_id} :
           /\ cpu' = [cpu EXCEPT !.brand_id = r.v]
           /\ queries' = queries \o r.q
    /\ pc' = "threads"
    /\ UNCHANGED <<shown, ports, hw, ncalls, args, ret>>

\* threads: fns::logical_cores()
NewThreads ==
    /\ pc = "threads"
    /\ \E r \in {logical_cores} :
           /\ cpu' = [cpu EXCEPT !.threads = r.v]
           /\ queries' = queries \o r.q
    /\ pc' = "signature"
    /\ UNCHANGED <<shown, ports, hw, ncalls, args, ret>>

\* signature: CpuSignature::detect()
NewSignature ==
    /\ pc = "signature"
    /\ \E r \in {CpuSignature_detect} :
           /\ cpu' = [cpu EXCEPT !.signature = r.v]
           /\ queries' = queries \o r.q
    /\ pc' = "features"
    /\ UNCHANGED <<shown, ports, hw, ncalls, args, ret>>

\* features: fns::get_feature_list(); Cpu::new returns
NewFeatures ==
    /\ pc = "features"
    /\ \E r \in {get_feature_list} :
           /\ cpu' = [cpu EXCEPT !.features = r.v]
           /\ queries' = queries \o r.q
    /\ pc' = "done"
    /\ UNCHANGED <<shown, ports, hw, ncalls, args, ret>>

\* a caller's x86_cpuid(leaf); ret holds the call
CallCpuid ==
    /\ pc = "done"
    /\ ncalls < MaxCalls
    /\ \E leaf \in CallLeaves : ret' = <<x86_cpuid(leaf)>>
    /\ ncalls' = ncalls + 1
    /\ UNCHANGED <<shown, ports, hw, pc, queries, cpu, args>>

\* a caller's x86_cpuid_count(leaf, sub_leaf); ret holds the call
CallCpuidCount ==
    /\ pc = "done"
    /\ ncalls < MaxCalls
    /\ \E leaf \in CallLeaves, sub_leaf \in CallSubLeaves :
           ret' = <<x86_cpuid_count(leaf, sub_leaf)>>
    /\ ncalls' = ncalls + 1
    /\ UNCHANGED <<shown, ports, hw, pc, queries, cpu, args>>

\* display_table(): simple_line("Model", self.display_model_string()); every
\* other line is printed from the fields of the Cpu value
Display ==
    /\ pc = "done"
    /\ shown' = display_model_string(cpu)
    /\ pc' = "displayed"
    /\ UNCHANGED <<hw, queries, cpu, ncalls, args, ret, ports>>

Next ==
    \/ NewModelString
    \/ NewSignatureArg
    \/ NewVendorStr
    \/ NewArch
    \/ NewEasterEgg
    \/ NewBrandId
    \/ NewThreads
    \/ NewSignature
    \/ NewFeatures
    \/ CallCpuid
    \/ CallCpuidCount
    \/ Display

Spec == Init /\ [][Next]_vars

-----------------------------------------------------------------------------
(* CpuArch::find and CpuBrand::from on arguments of the caller's choice    *)

\* the model and stepping fields of the signatures tried run up to these
MaxModel == 3
MaxStepping == 16

\* a CpuSignature with the five matched fields given; the display fields
\* follow the rules of CpuSignature::detect
Sig(ef, f, em, m, st) ==
    [extended_family |-> ef, family |-> f, extended_model |-> em,
     model |-> m, stepping |-> st,
     display_family |-> IF f = 15 THEN f + ef ELSE f,
     display_model |-> IF f = 6 \/ f = 15 THEN em * 16 + m ELSE m,
     is_overdrive |-> FALSE]

\* signatures in and out of what hardware reports (family 99 is out)
FindSignatures ==
    { Sig(ef, f, em, m, st) :
        ef \in {0, 8}, f \in {0, 4, 5, 6, 15, 99}, em \in {0, 1},
        m \in 0..MaxModel, st \in 0..MaxStepping }

\* strings that are no VENDOR_* constant: empty, the UNK sentinel, a
\* constant in another case, constants with a byte more, a string too long
\* for String<12>
OtherVendorStrings ==
    { "", "Unknown", "genuineintel", "GenuineIntel ", "CentaurHauls!",
      "SomeOtherVendor" }

FindVendorStrings == VendorConstants \cup OtherVendorStrings

\* args of a call: fn is the function called; CpuBrand::from takes
\* vendor_string alone
FindArgs ==
    { [fn |-> "find", model |-> "Model X", s |-> sig, vendor_string |-> v] :
        sig \in FindSignatures, v \in FindVendorStrings }

FromArgs ==
    { [fn |-> "from", model |-> "", s |-> CpuSignatureDefault,
       vendor_string |-> v] : v \in FindVendorStrings }

InitFind ==
    /\ hw = NoHardware
    /\ pc = "call"
    /\ queries = <<>>
    /\ cpu = NoCpu
    /\ ncalls = 0
    /\ args \in FindArgs \cup FromArgs
    /\ ret = <<>>
    /\ ports = <<>>
    /\ shown = <<>>

\* CpuArch::find(model, s, vendor_string): returns the CpuArch or panics
Find ==
    /\ pc = "call"
    /\ args.fn = "find"
    /\ \E r \in {find(args.model, args.s, args.vendor_string)} :
           /\ ret' = <<r>>
           /\ pc' = IF r.panic THEN "panicked" ELSE "returned"
    /\ UNCHANGED <<shown, ports, hw, queries, cpu, ncalls, args>>

\* CpuBrand::from(brand) on the &str, and on the String<12> when the string
\* fits one (<<>> when String::from_str fails)
BrandFrom ==
    /\ pc = "call"
    /\ args.fn = "from"
    /\ ret' = << CpuBrand_from(args.vendor_string),
                 IF FitsString12(args.vendor_string)
                 THEN <<CpuBrand_from_String12(args.vendor_string)>>
                 ELSE <<>> >>
    /\ pc' = "converted"
    /\ UNCHANGED <<shown, ports, hw, queries, cpu, ncalls, args>>

\* the processors a repeated call may run on: one that reports nothing and
\* one that reports "AuthenticAMD"
FindHardware ==
    { NoHardware,
      [NoHardware EXCEPT
           !.vendor = <<65, 117, 116, 104, 101, 110, 116, 105, 99, 65, 77,
                        68>>] }

\* CpuArch::find called again with the arguments of the first call, on the
\* processor hw' in any state; ret holds both results
FindAgain ==
    /\ pc = "returned"
    /\ hw' \in FindHardware
    /\ UNCHANGED <<shown, ports, queries, cpu, ncalls, args>>
    /\ ret' = Append(ret, find(args.model, args.s, args.vendor_string)')
    /\ pc' = "returned_again"

NextFind ==
    \/ Find
    \/ BrandFrom
    \/ FindAgain

SpecFind == InitFind /\ [][NextFind]_vars

-----------------------------------------------------------------------------
(* the decoding of a leaf-1 EAX word of the caller's choice                *)

\* halves of the words tried: each field empty, lowest bit, full; the bits
\* 12..15 and 28..31 that belong to no decoded field; mixed values
LowHalves ==
    { 0, 1, 15, 16, 240, 256, 3840, 4096, 8192, 16384, 32768, 1703, 7952,
      65535 }
HighHalves == { 0, 1, 2, 15, 16, 129, 4080, 4096, 32768, 65535 }

InitDecode ==
    /\ hw = NoHardware
    /\ pc = "call"
    /\ queries = <<>>
    /\ cpu = NoCpu
    /\ ncalls = 0
    /\ args \in { U32(hi, lo) : hi \in HighHalves, lo \in LowHalves }
    /\ ret = <<>>
    /\ ports = <<>>
    /\ shown = <<>>

\* the field extraction of CpuSignature::detect on the word args
Decode ==
    /\ pc = "call"
    /\ ret' = <<DecodeSignature(args)>>
    /\ pc' = "decoded"
    /\ UNCHANGED <<shown, ports, hw, queries, cpu, ncalls, args>>

SpecDecode == InitDecode /\ [][Decode]_vars

-----------------------------------------------------------------------------
(* the flag tests of has_cpuid and is_cyrix, instruction by instruction     *)

\* EFLAGS is the set of its bits that are 1. The status flags CF, PF, AF,
\* ZF, SF, OF are bits 0, 2, 4, 6, 7, 11; AC is bit 18 and ID bit 21.
StatusFlags == {0, 2, 4, 6, 7, 11}
FlagBits == StatusFlags \cup {18, 21}

\* a xor b on sets of bits
XorBits(a, b) == (a \ b) \cup (b \ a)

\* popfd of value over the flags old: AC and ID take the written bit only
\* on a processor that implements them
PopFd(old, value) ==
    (value \ {18, 21})
        \cup (IF hw.id_flag THEN value \cap {21} ELSE old \cap {21})
        \cup (IF hw.ac_flag THEN value \cap {18} ELSE old \cap {18})

\* the status flags after xor / and with the given result: CF and OF
\* cleared, ZF, SF and PF from the result, AF undefined (af)
LogicFlags(result, af) ==
    (IF result = {} THEN {6} ELSE {})
        \cup (IF 31 \in result THEN {7} ELSE {})
        \cup (IF Cardinality(result \cap (0..7)) % 2 = 0 THEN {2} ELSE {})
        \cup (IF af THEN {4} ELSE {})

\* a has_cpuid whose asm leaves out push ecx / popfd
has_cpuid_asm_NoRestore(eflags, af) ==
    IF hw.arch = "x86_64"
    THEN [v |-> TRUE, eflags |-> eflags]
    ELSE LET toggled == PopFd(eflags, XorBits(eflags, {21}))
             r == XorBits(toggled, eflags) \cap {21}
         IN  [v |-> r # {},
              eflags |-> (toggled \ StatusFlags) \cup LogicFlags(r, af)]

\* fns::has_cpuid with the flags it runs on: pushfd / pop eax / mov ecx, eax
\* / xor eax, 0x200000 / push eax / popfd (toggled) / pushfd / pop eax /
\* push ecx / popfd (restored) / xor eax, ecx / and eax, 0x200000
has_cpuid_asm(eflags, af) ==
    IF hw.arch = "x86_64"
    THEN [v |-> TRUE, eflags |-> eflags]
    ELSE LET toggled == PopFd(eflags, XorBits(eflags, {21}))
             restored == PopFd(toggled, eflags)
             r == XorBits(toggled, eflags) \cap {21}
         IN  [v |-> r # {},
              eflags |-> (restored \ StatusFlags) \cup LogicFlags(r, af)]

\* fns::is_cyrix with the flags it runs on: xor ax, ax / sahf clear OF and
\* SF, ZF, AF, PF, CF; div bl leaves them on a Cyrix and sets the status
\* flags to d elsewhere; lahf reads them, 0xD5 masks bits 0, 2, 4, 6, 7
is_cyrix_asm(eflags, d) ==
    IF hw.arch = "x86_64"
    THEN [v |-> FALSE, eflags |-> eflags]
    ELSE LET after == IF hw.div_keeps_flags THEN {} ELSE d
         IN  [v |-> after \cap {0, 2, 4, 6, 7} = {},
              eflags |-> (eflags \ StatusFlags) \cup after]

\* the processors of the flag tests
FlagHardware ==
    { [NoHardware EXCEPT !.arch = p.arch, !.id_flag = p.id_flag,
                         !.div_keeps_flags = p.div_keeps_flags,
                         !.ac_flag = p.ac_flag] : p \in Platforms }

\* the status flags div may leave on a processor that is no Cyrix: at least
\* one of the five masked flags is set
DivFlags == { d \in SUBSET StatusFlags : d \cap {0, 2, 4, 6, 7} # {} }

\* a call of has_cpuid or is_cyrix with any flags the processor can hold
InitFlags ==
    /\ hw \in FlagHardware
    /\ pc = "call"
    /\ queries = <<>>
    /\ cpu = NoCpu
    /\ ncalls = 0
    /\ args \in [fn : {"has_cpuid", "is_cyrix"}, eflags : SUBSET FlagBits]
    /\ (21 \in args.eflags => hw.id_flag)
    /\ (18 \in args.eflags => hw.ac_flag)
    /\ ret = <<>>
    /\ ports = <<>>
    /\ shown = <<>>

HasCpuidCall ==
    /\ pc = "call"
    /\ args.fn = "has_cpuid"
    /\ \E af \in BOOLEAN : ret' = <<has_cpuid_asm(args.eflags, af)>>
    /\ pc' = "returned"
    /\ UNCHANGED <<shown, ports, hw, queries, cpu, ncalls, args>>

IsCyrixCall ==
    /\ pc = "call"
    /\ args.fn = "is_cyrix"
    /\ \E d \in DivFlags : ret' = <<is_cyrix_asm(args.eflags, d)>>
    /\ pc' = "returned"
    /\ UNCHANGED <<shown, ports, hw, queries, cpu, ncalls, args>>

NextFlags ==
    \/ HasCpuidCall
    \/ IsCyrixCall

SpecFlags == InitFlags /\ [][NextFlags]_vars

-----------------------------------------------------------------------------
(* the ARM build: get_midr, Midr::new and the arm Cpu::new                  *)

\* A usize of the ARM build is the set of its bits that are 1, bit 0 the
\* least significant; UsizeBits is the width of the target.
UsizeBits == 64

\* the bits of the 32-bit number hi * 2^16 + lo
BitsOf(hi, lo) == { i \in 0..31 : Bit32(U32(hi, lo), i) }

\* v << n and v >> n on a usize
ShlBits(v, n) == { i + n : i \in v } \cap (0..(UsizeBits - 1))
ShrBits(v, n) == { i - n : i \in { j \in v : j >= n } }

IMPLEMENTER_MASK == BitsOf(65280, 0)
VARIANT_MASK == BitsOf(240, 0)
ARCHITECTURE_MASK == BitsOf(15, 0)
PART_MASK == BitsOf(0, 65520)
REVISION_MASK == BitsOf(0, 15)

IMPLEMENTER_OFFSET == 24
VARIANT_OFFSET == 20
ARCHITECTURE_OFFSET == 16
PART_OFFSET == 4
REVISION_OFFSET == 0

midr_get_part(midr) == ShrBits(midr \cap PART_MASK, PART_OFFSET)
midr_get_architecture(midr) == ShrBits(midr \cap ARCHITECTURE_MASK, ARCHITECTURE_OFFSET)
midr_get_revision(midr) == midr \cap REVISION_MASK
midr_get_variant(midr) == ShrBits(midr \cap VARIANT_MASK, VARIANT_OFFSET)
midr_get_implementer(midr) == ShrBits(midr \cap IMPLEMENTER_MASK, IMPLEMENTER_OFFSET)

\* a Midr::new that reads the variant where the architecture is
Midr_new_VariantFromArchitecture(midr) ==
    [ implementer |-> midr_get_implementer(midr),
      variant |-> midr_get_architecture(midr),
      architecture |-> midr_get_architecture(midr),
      part |-> midr_get_part(midr),
      revision |-> midr_get_revision(midr) ]

\* Midr::new
Midr_new(midr) ==
    [ implementer |-> midr_get_implementer(midr),
      variant |-> midr_get_variant(midr),
      architecture |-> midr_get_architecture(midr),
      part |-> midr_get_part(midr),
      revision |-> midr_get_revision(midr) ]

\* fns::get_midr on the machine m: the Windows branch builds the value from
\* wProcessorLevel and wProcessorRevision under implementer 0x41, the macOS
\* branch from hw.cpufamily when sysctlbyname returns 0, every other target
\* reads the MIDR register
get_midr(m) ==
    CASE m.os = "windows" ->
             ShlBits(BitsOf(0, 65), 24)
                 \cup ShlBits(m.wProcessorLevel \cap BitsOf(0, 4095), 4)
                 \cup (m.wProcessorRevision \cap BitsOf(0, 15))
      [] m.os = "macos" ->
             IF m.sysctl = 0
             THEN ShlBits(m.cpufamily \cap BitsOf(0, 255), 24)
                      \cup ShlBits(m.cpufamily \cap BitsOf(15, 65280), 4)
             ELSE {}
      [] OTHER -> m.midr

\* as u8 and as u16
AsU8(v) == v \cap (0..7)
AsU16(v) == v \cap (0..15)

\* the arm Cpu::new
arm_Cpu_new(m) ==
    CHOOSE r \in
        { [ raw_midr |-> midr,
            midr |-> Midr_new(midr),
            implementer |-> AsU8(ShrBits(midr, 24) \cap BitsOf(0, 255)),
            variant |-> AsU8(ShrBits(midr, 20) \cap BitsOf(0, 15)),
            part_number |-> AsU16(ShrBits(midr, 4) \cap BitsOf(0, 4095)),
            revision |-> AsU8(midr \cap BitsOf(0, 15)) ] :
              midr \in {get_midr(m)} } : TRUE

\* 16-bit halves of the register and family values tried: zero, all ones,
\* single fields, and the halves of MIDR values of Cortex-A53, Cortex-A72
\* and Apple cores and of the hw.cpufamily values of Apple processors
ArmHalves ==
    { 0, 65535, 1, 15, 16, 240, 255, 256, 3840, 4096, 61440,
      16655, 16719, 24863, 53299, 53379, 7000, 35763, 55859, 55357, 2003, 19359 }

\* the bits of every 32-bit value with both halves in ArmHalves
ArmWords == { BitsOf(h, l) : h \in ArmHalves, l \in ArmHalves }

\* the machines the ARM build runs on: a target that reads the register, a
\* macOS whose sysctlbyname answers or fails (the u64 hw.cpufamily may have
\* bits above the 32nd), a Windows with its level and revision words
ArmMachines ==
    { [os |-> "linux", midr |-> w, sysctl |-> 0, cpufamily |-> {},
       wProcessorLevel |-> {}, wProcessorRevision |-> {}] : w \in ArmWords }
    \cup { [os |-> "macos", midr |-> {}, sysctl |-> rc, cpufamily |-> w \cup top,
            wProcessorLevel |-> {}, wProcessorRevision |-> {}] :
               w \in ArmWords, rc \in {0, -1}, top \in {{}, {32, 63}} }
    \cup { [os |-> "windows", midr |-> {}, sysctl |-> 0, cpufamily |-> {},
            wProcessorLevel |-> BitsOf(0, l), wProcessorRevision |-> BitsOf(0, r)] :
               l \in {0, 8, 4095, 65535}, r \in {0, 1, 15, 513} }

InitArm ==
    /\ hw = NoHardware
    /\ pc = "call"
    /\ queries = <<>>
    /\ cpu = NoCpu
    /\ ncalls = 0
    /\ args \in ArmMachines
    /\ ret = <<>>
    /\ ports = <<>>
    /\ shown = <<>>

\* Cpu::new of the ARM build
ArmCpuNew ==
    /\ pc = "call"
    /\ ret' = <<arm_Cpu_new(args)>>
    /\ pc' = "returned"
    /\ UNCHANGED <<shown, ports, hw, queries, cpu, ncalls, args>>

SpecArm == InitArm /\ [][ArmCpuNew]_vars

-----------------------------------------------------------------------------
(* display_model_string on Cpu values built by hand, as its unit test does  *)

\* signatures of a 486 DX, a 486 DX2, a 486 SX, a Pentium, a Pentium III,
\* a Pentium 4 Xeon MP, and the all-zero default
DisplaySignatures ==
    { Sig(0, 4, 0, 0, 0), Sig(0, 4, 0, 3, 0), Sig(0, 4, 0, 2, 0),
      Sig(0, 5, 0, 2, 0), Sig(0, 6, 0, 8, 0), Sig(0, 15, 0, 1, 3),
      CpuSignatureDefault }

\* leaf 1 with brand id 0 and no feature; brand id 2 with CMPXCHG8B and MMX
\* (EDX bits 8, 23); brand id 11 and no feature
DisplayLeaf1s ==
    { CpuInfoDefault,
      CpuInfo(Zero32, U32(0, 2), Zero32, U32(128, 256)),
      CpuInfo(Zero32, U32(0, 11), Zero32, Zero32) }

DisplayHardware ==
    { [NoHardware EXCEPT !.arch = p.arch, !.id_flag = p.id_flag,
                         !.div_keeps_flags = p.div_keeps_flags,
                         !.ac_flag = p.ac_flag, !.max_leaf = LEAF_1,
                         !.leaf1 = l1] :
        p \in Platforms, l1 \in DisplayLeaf1s }

\* Cpu values: arch as CpuArch::find classifies a signature, signature that
\* one or the default
DisplayCpus ==
    UNION { { [NoCpu EXCEPT !.arch = <<find(m, s, v)>>, !.signature = sg] :
                m \in {"Unknown", "Model X"},
                v \in {VENDOR_INTEL, VENDOR_AMD, VENDOR_CYRIX, VENDOR_UMC, ""},
                sg \in {s, CpuSignatureDefault} } :
            s \in DisplaySignatures }

InitDisplay ==
    /\ hw \in DisplayHardware
    /\ pc = "done"
    /\ queries = <<>>
    /\ cpu \in DisplayCpus
    /\ ncalls = 0
    /\ args = <<>>
    /\ ret = <<>>
    /\ ports = <<>>
    /\ shown = <<>>

SpecDisplay == InitDisplay /\ [][Display]_vars

-----------------------------------------------------------------------------
(* properties of Cpu::new and of the query functions (Spec)                *)

\* the call c ran the instruction only with CPUID support, and without
\* support returned the all-zero CpuInfo
CallGuarded(c) ==
    /\ c.exec => has_cpuid
    /\ ~has_cpuid => (~c.exec /\ c.res = CpuInfoDefault)

\* C1: every x86_cpuid / x86_cpuid_count call of Cpu::new and every free
\* call executes the CPUID instruction only where has_cpuid() is true, and
\* where it is false returns eax = ebx = ecx = edx = 0 for every leaf and
\* sub-leaf.
C1_CpuidOnlyWhenSupported ==
    /\ \A i \in 1..Len(queries) : CallGuarded(queries[i])
    /\ ret # <<>> => CallGuarded(ret[1])

\* Cpu::new has returned on a processor without CPUID support and a free
\* call of leaf 1, whose data is not zero, has been made
C1_Witness ==
    /\ ~has_cpuid
    /\ pc = "done"
    /\ Len(queries) > 0
    /\ ret # <<>>
    /\ ret[1].leaf = LEAF_1
    /\ hw.leaf1 # CpuInfoDefault

\* C2: for the capabilities of leaf 0x8000_0001 (AMD64, 3DNow!, 3DNow+, and
\* SSE4A on an AMD processor): whenever the maximum extended leaf is at
\* least 0x8000_0001 and the capability's bit is set in the register
\* queried, the capability is reported present, whatever the maximum basic
\* leaf is.
C2_ExtendedGateOnExtendedMaximum ==
    ~Lt32(max_extended_leaf.v, EXT_LEAF_1) =>
        /\ Bit32(x86_cpuid(EXT_LEAF_1).res.edx, 29) => has_amd64.v
        /\ Bit32(x86_cpuid(EXT_LEAF_1).res.edx, 30) => has_3dnow_plus.v
        /\ Bit32(x86_cpuid(EXT_LEAF_1).res.edx, 31) => has_3dnow.v
        /\ (CpuBrand_detect.v = "AMD"
               /\ Bit32(x86_cpuid(EXT_LEAF_1).res.ecx, 6)) => has_sse4a.v

\* the four leaf-7 tests
Leaf7Tests == { has_avx2, has_avx512f, has_bmi1, has_bmi2 }
Leaf7Names == { "AVX2", "AVX512F", "BMI1", "BMI2" }

\* C3: when the maximum basic leaf reported by leaf 0 is below 7, each of
\* AVX2, AVX512F, BMI1, BMI2 is false whatever leaf 7 holds and leaf 7 is
\* not queried, by the tests or by Cpu::new; when a test does query leaf 7,
\* the query of leaf 0 that gates it comes before it.
C3_Leaf7GatedBeforeBitTest ==
    /\ Lt32(max_leaf.v, LEAF_7) =>
           /\ \A f \in Leaf7Tests :
                  ~f.v /\ \A i \in 1..Len(f.q) : f.q[i].leaf # LEAF_7
           /\ \A i \in 1..Len(queries) : queries[i].leaf # LEAF_7
           /\ pc = "done" =>
                  \A i \in 1..Len(cpu.features) :
                      cpu.features[i] \notin Leaf7Names
    /\ \A f \in Leaf7Tests : \A i \in 1..Len(f.q) :
           f.q[i].leaf = LEAF_7 =>
               \E j \in 1..(i - 1) : f.q[j].leaf = LEAF_0

\* Cpu::new has returned on a processor with CPUID whose maximum basic leaf
\* is below 7 and whose leaf 7 holds the AVX2 bit
C3_Witness ==
    /\ pc = "done"
    /\ has_cpuid
    /\ Lt32(hw.max_leaf, LEAF_7)
    /\ Bit32(hw.leaf7.ebx, 5)

-----------------------------------------------------------------------------
(* properties of CpuArch::find and CpuBrand::from (SpecFind)               *)

\* find has returned from a call with the vendor string v
Returned(v) == pc = "returned" /\ args.fn = "find" /\ args.vendor_string = v

\* the five matched fields of the signature s are ef, f, em, m
SigIs(s, ef, f, em, m) ==
    /\ s.extended_family = ef
    /\ s.family = f
    /\ s.extended_model = em
    /\ s.model = m

\* C4: find_intel returns the result of the first row, in source order,
\* whose five guards all accept the signature; for (0, 6, 0, 3) stepping 2
\* gives code name "P6T (Deschutes)" and every other stepping "Klamath";
\* for (0, 6, 0, 1) every stepping outside {1, 2, 6, 7, 8, 9} gives
\* P6PentiumII with code name "Unknown".
C4_IntelFirstMatchingRow ==
    Returned(VENDOR_INTEL) =>
        /\ \E i \in 1..Len(IntelRows) :
               /\ RowMatches(IntelRows[i], args.s)
               /\ \A j \in 1..(i - 1) : ~RowMatches(IntelRows[j], args.s)
               /\ ret[1].micro_arch = IntelRows[i].ma
               /\ ret[1].code_name = IntelRows[i].code
               /\ ret[1].technology = IntelRows[i].tech
        /\ SigIs(args.s, 0, 6, 0, 3) =>
               ret[1].code_name = IF args.s.stepping = 2
                                  THEN "P6T (Deschutes)" ELSE "Klamath"
        /\ (SigIs(args.s, 0, 6, 0, 1)
               /\ args.s.stepping \notin {1, 2, 6, 7, 8, 9}) =>
               /\ ret[1].micro_arch = "P6PentiumII"
               /\ ret[1].code_name = "Unknown"

\* find has returned for the Intel signature (0, 6, 0, 3) stepping 2, which
\* the later row (0, 6, 0, 3, _) accepts too
C4_Witness ==
    /\ Returned(VENDOR_INTEL)
    /\ SigIs(args.s, 0, 6, 0, 3)
    /\ args.s.stepping = 2
    /\ ret[1].code_name = "P6T (Deschutes)"

\* the table find selects for a vendor string, <<>> when it selects none
TableOf(v) ==
    CASE v = VENDOR_AMD -> AmdRows
      [] v = VENDOR_CENTAUR -> CentaurRows
      [] v = VENDOR_CYRIX -> CyrixRows
      [] v = VENDOR_DMP -> DmpRows
      [] v = VENDOR_INTEL -> IntelRows
      [] v = VENDOR_NSC -> NscRows
      [] v = VENDOR_RISE -> RiseRows
      [] v \in {VENDOR_TRANSMETA, VENDOR_UMC} -> UmcTransmetaRows
      [] OTHER -> <<>>

\* no row before the closing catch-all of the selected table accepts s
NoRowMatches(v, s) ==
    \A i \in 1..(Len(TableOf(v)) - 1) : ~RowMatches(TableOf(v)[i], s)

VendorTables ==
    { AmdRows, IntelRows, CentaurRows, CyrixRows, DmpRows, NscRows, RiseRows,
      UmcTransmetaRows }

\* the largest value of each matched field that hardware reports: an
\* 8-bit extended family and 4-bit family, extended model, model, stepping
FieldMax == <<255, 15, 15, 15, 15>>

\* the values of field k, inside the hardware width, that the guard g
\* accepts
Accepted(g, k) == IF g = Wild THEN 0..FieldMax[k] ELSE g \cap 0..FieldMax[k]

\* the row i of the table t is the first matching row of some signature
\* with fields inside the hardware bit widths
FirstSomewhere(t, i) ==
    \E ef \in Accepted(t[i].g[1], 1), f \in Accepted(t[i].g[2], 2),
       em \in Accepted(t[i].g[3], 3), m \in Accepted(t[i].g[4], 4),
       st \in Accepted(t[i].g[5], 5) :
        FirstMatch(t, Sig(ef, f, em, m, st)) = i

\* C6: in every vendor table no row is shadowed by the rows before it: for
\* each row, the closing catch-all included, some signature with fields
\* inside the hardware bit widths has that row as its first matching row.
\* Stated of the table that the vendor string of the call selects; the
\* calls select each of the eight tables.
C6_NoRowShadowed ==
    /\ VendorTables = { TableOf(v) : v \in VendorConstants } \ {<<>>}
    /\ \A i \in 1..Len(TableOf(args.vendor_string)) :
           FirstSomewhere(TableOf(args.vendor_string), i)

\* find has returned through the catch-all of the Centaur table, its last
\* row, for a signature inside the hardware widths
C6_Witness ==
    /\ Returned(VENDOR_CENTAUR)
    /\ args.s.family <= FieldMax[2]
    /\ args.s.stepping <= FieldMax[5]
    /\ FirstMatch(CentaurRows, args.s) = Len(CentaurRows)
    /\ ret[1].code_name = UNK

\* C7: for the vendor string "CentaurHauls" find derives the lineage from
\* the family field alone: family 5 gives the brand name "IDT", family 6
\* "Via", every other family "Zhaoxin", for every signature and also when
\* no row matches; the vendor_string of the result stays "CentaurHauls".
C7_CentaurLineageFromFamily ==
    Returned(VENDOR_CENTAUR) =>
        /\ ret[1].brand_name = CASE args.s.family = 5 -> "IDT"
                                 [] args.s.family = 6 -> "Via"
                                 [] OTHER -> "Zhaoxin"
        /\ ret[1].vendor_string = "CentaurHauls"

\* find has returned for "CentaurHauls" and a family other than 5 and 6
\* that no row accepts
C7_Witness ==
    /\ Returned(VENDOR_CENTAUR)
    /\ args.s.family = 15
    /\ NoRowMatches(VENDOR_CENTAUR, args.s)
    /\ ret[1].brand_name = "Zhaoxin"

\* C8: CpuBrand::from never returns Unknown for a string equal to one of
\* the VENDOR_* constants.
C8_ConstantsNeverUnknown ==
    (pc = "converted" /\ args.vendor_string \in VendorConstants) =>
        ret[1] # "Unknown"

\* C8, the indirect path, a predicate of the states of Spec: CpuBrand::detect
\* does not return Unknown when is_cyrix() holds and the vendor string is
\* empty.
C8_DetectCyrixSideChannel ==
    (is_cyrix /\ CpuBrand_vendor_str.v = "") => CpuBrand_detect.v # "Unknown"

\* C9: for every string equal to no vendor constant, CpuBrand::from returns
\* Unknown, from the &str and from the String<12>, and find with such a
\* vendor string gives micro_arch Unknown, code_name "Unknown" and
\* brand_name "Unknown" for every signature.
C9_OtherStringsUnknown ==
    /\ (pc = "converted" /\ args.vendor_string \notin VendorConstants) =>
           /\ ret[1] = "Unknown"
           /\ ret[2] # <<>> => ret[2][1] = "Unknown"
    /\ (pc = "returned" /\ args.vendor_string \notin VendorConstants) =>
           /\ ret[1].micro_arch = "Unknown"
           /\ ret[1].code_name = "Unknown"
           /\ ret[1].brand_name = "Unknown"

\* both conversions have run on "genuineintel", which fits a String<12>
C9_Witness ==
    /\ pc = "converted"
    /\ args.vendor_string = "genuineintel"
    /\ ret[2] = <<"Unknown">>

-----------------------------------------------------------------------------
(* properties of the signature decoding (SpecDecode)                       *)

\* the word with the five decoded fields of d at their bit positions:
\* stepping at bits 0-3, model at 4-7, family at 8-11, extended_model at
\* 16-19, extended_family at 20-27
Encode(d) ==
    U32(d.extended_model + 16 * d.extended_family,
        d.stepping + 16 * d.model + 256 * d.family)

\* w & 0x0FFF_0FFF: w without bits 12-15 and 28-31, which no field holds
FieldBits(w) == U32(w[1] % 4096, w[2] % 4096)

\* C10, as the specification states it: placing the five decoded fields
\* back at their bit positions reproduces the word w.
C10_RoundTripReproducesWord ==
    pc = "decoded" => Encode(ret[1]) = args

\* C10, amended: decoding is defined on every word, and placing the five
\* decoded fields back reproduces w with bits 12-15 and 28-31 cleared, so
\* reproduces w exactly when those bits of w are zero.
C10_RoundTripReproducesFieldBits ==
    pc = "decoded" =>
        /\ Encode(ret[1]) = FieldBits(args)
        /\ Encode(ret[1]) = args <=> args = FieldBits(args)

\* the word 0x0081_1F10, whose processor type (bits 12-13) is 1, has been
\* decoded
C10_Witness ==
    /\ pc = "decoded"
    /\ args = U32(129, 7952)
    /\ ret[1].extended_family = 8
    /\ Encode(ret[1]) # args

\* C11: for every decoded signature, display_family is family +
\* extended_family when family is 0xF and family otherwise; display_model is
\* (extended_model << 4) + model when family is 6 or 0xF and model exactly
\* otherwise.
C11_DisplayFamilyAndModel ==
    pc = "decoded" =>
        /\ ret[1].family = 15 =>
               ret[1].display_family = ret[1].family + ret[1].extended_family
        /\ ret[1].family # 15 => ret[1].display_family = ret[1].family
        /\ ret[1].family \in {6, 15} =>
               ret[1].display_model
                   = ret[1].extended_model * 16 + ret[1].model
        /\ ret[1].family \notin {6, 15} =>
               ret[1].display_model = ret[1].model

\* a word of a family other than 6 and 0xF with a non-zero extended model
\* has been decoded
C11_Witness ==
    /\ pc = "decoded"
    /\ ret[1].family \notin {6, 15}
    /\ ret[1].extended_model # 0
    /\ ret[1].model # 0
    /\ ret[1].display_model = ret[1].model

\* C12: on a processor where has_cpuid() is false and is_cyrix() is false,
\* the profile Cpu::new builds has an empty feature list and the model
\* string "Unknown".
C12_NoCpuidProfileIsEmpty ==
    (pc = "done" /\ ~has_cpuid /\ ~is_cyrix) =>
        /\ cpu.features = <<>>
        /\ cpu.model_arg = "Unknown"
        /\ cpu.arch # <<>> /\ cpu.arch[1].model = "Unknown"

\* Cpu::new has returned on a processor without CPUID that is no Cyrix and
\* whose leaves, were they read, would report features and a brand string
C12_Witness ==
    /\ pc = "done"
    /\ ~has_cpuid /\ ~is_cyrix
    /\ ~Lt32(hw.max_leaf, LEAF_7) /\ ~Lt32(hw.max_ext, EXT_LEAF_4)
    /\ hw.leaf1.edx # Zero32
    /\ cpu.features = <<>>

\* the leaves 0x8000_0002..4 of the brand string
BrandLeaves == { EXT_LEAF_2, EXT_LEAF_3, EXT_LEAF_4 }

\* the bytes of EAX, EBX, ECX, EDX of a recorded call, each low byte first
CallBytes(c) ==
    LeBytes(c.res.eax) \o LeBytes(c.res.ebx) \o LeBytes(c.res.ecx)
        \o LeBytes(c.res.edx)

C13_WitnessUnknown ==
    /\ pc = "signature_arg"
    /\ has_cpuid /\ hw.max_ext = EXT_LEAF_1
    /\ Len(queries) = 1
    /\ cpu.model_arg = "Unknown"

\* bits 16-23 of EBX of leaf 1 of the processor
CountByte == hw.leaf1.ebx[1] % 256

C14_WitnessUnavailable ==
    /\ pc = "signature"
    /\ has_cpuid /\ Lt32(hw.max_leaf, LEAF_1)
    /\ CountByte = 8
    /\ cpu.threads = 1

\* the step of Cpu::new that evaluates fns::vendor_str()
VendorStrStep == pc = "vendor_arg" /\ pc' = "arch"

\* C15: vendor_str assembles the identifying string from leaf 0 as the bytes
\* of EBX, then EDX, then ECX, each word low byte first, skipping every zero
\* byte wherever it occurs, for words whose bytes are ASCII or zero; when
\* has_cpuid() is false and is_cyrix() is true it returns "CyrixInstead"
\* without reading leaf 0.
C15_VendorStrSkipsZeroBytes ==
    [][VendorStrStep =>
          IF ~has_cpuid /\ is_cyrix
          THEN /\ cpu'.vendor_arg = "CyrixInstead"
               /\ queries' = queries
          ELSE /\ Len(queries') = Len(queries) + 1
               /\ \E c \in {queries'[Len(queries')]} :
                      /\ c.leaf = LEAF_0
                      /\ \E bs \in {LeBytes(c.res.ebx) \o LeBytes(c.res.edx)
                                        \o LeBytes(c.res.ecx)} :
                             \E keep \in {{ i \in 1..12 : bs[i] # 0 }} :
                                 /\ Len(cpu'.vendor_arg) = Cardinality(keep)
                                 /\ cpu'.vendor_arg
                                        = AsStr(SelectSeq(bs,
                                                    LAMBDA b : b # 0))
               /\ (has_cpuid /\ hw.vendor[4] = 0 /\ hw.vendor[1] = 86)
                      => cpu'.vendor_arg = "VIAVIAVIA"
               /\ (has_cpuid /\ hw.vendor[1] = 71)
                      => cpu'.vendor_arg = "GenuineIntel"]_vars

\* vendor_str has assembled "VIAVIAVIA" from words with a zero byte each
C15_Witness ==
    /\ pc = "arch"
    /\ has_cpuid
    /\ hw.vendor[4] = 0 /\ hw.vendor[5] = 86 /\ hw.vendor[12] = 0
    /\ queries[Len(queries)].leaf = LEAF_0
    /\ cpu.vendor_arg = "VIAVIAVIA"

\* vendor_str has returned "CyrixInstead" on a Cyrix part without CPUID
C15_WitnessCyrix ==
    /\ pc = "arch"
    /\ ~has_cpuid /\ is_cyrix
    /\ cpu.vendor_arg = "CyrixInstead"

\* the names of the feature list of the profile
FeatureNames == { cpu.features[i] : i \in 1..Len(cpu.features) }

\* C16: 3DNow! (has_3dnow, bit 31 of EDX of leaf 0x80000001) is forced false
\* on vendor "GenuineIntel", regardless of the raw bit the query returns.
C16_3DNowForcedFalseOnIntel ==
    (pc = "done" /\ cpu.vendor_arg = "GenuineIntel") =>
        /\ ~has_3dnow.v
        /\ "3DNow!" \notin FeatureNames

\* C17: SSE4A is reported false on every processor whose detected brand is
\* not AMD, even when bit 6 of ECX of leaf 0x80000001 is set and the leaf is
\* in range; the vendor check comes before any feature-leaf query.
C17_Sse4aOnlyOnAmd ==
    \E d \in {CpuBrand_detect}, s \in {has_sse4a} :
        /\ d.v # "AMD" =>
               /\ ~s.v
               /\ s.q = d.q
               /\ \A i \in 1..Len(s.q) :
                      s.q[i].leaf \notin {EXT_LEAF_0, EXT_LEAF_1}
               /\ pc = "done" => "SSE4A" \notin FeatureNames
        /\ d.v = "AMD" =>
               /\ Len(s.q) >= Len(d.q)
               /\ SubSeq(s.q, 1, Len(d.q)) = d.q
               /\ \A i \in 1..Len(d.q) : s.q[i].leaf = LEAF_0

\* Cpu::new has returned on an Intel processor whose leaf 0x80000001 is in
\* range and has ECX bit 6 set: AMD64 of the same leaf is listed, SSE4A is
\* not
C17_Witness ==
    /\ pc = "done"
    /\ cpu.vendor_arg = "GenuineIntel"
    /\ Bit32(hw.ext1.ecx, 6)
    /\ ~Lt32(hw.max_ext, EXT_LEAF_1) /\ ~Lt32(hw.max_leaf, EXT_LEAF_1)
    /\ "AMD64" \in FeatureNames
    /\ "SSE4A" \notin FeatureNames

\* C18: the one-time Cyrix enablement sequence (port I/O) is run by the
\* start-up path only when has_cpuid() is false and is_cyrix() is true, at
\* most once, and it completes before the first CPUID query of the run: on
\* such a processor the port writes have been made by the time the first
\* query function of Cpu::new has returned, and on no other processor is a
\* port written.
C18_EnablementBeforeFirstQuery ==
    /\ (has_cpuid \/ ~is_cyrix) => ports = <<>>
    /\ (~has_cpuid /\ is_cyrix /\ pc # "model_string") => ports # <<>>

\* the step of Cpu::new that evaluates Self::easter_egg()
EasterEggStep == pc = "easter_egg" /\ pc' = "brand_id"

\* the calls the step under way appends to queries
NewQueries == SubSeq(queries', Len(queries) + 1, Len(queries'))

\* C19: the easter egg is read only for two detected brands, from leaf
\* 0x8FFFFFFF for AMD and from leaf 0x00005A4E for Rise; for every other
\* brand no non-standard leaf is queried and the value is None; for AMD and
\* Rise the value is None exactly when the sixteen returned bytes are
\* nothing but zero bytes and white space.
C19_EasterEggOnlyAmdAndRise ==
    [][EasterEggStep =>
          \E brand \in {CpuBrand_detect.v}, new \in {NewQueries} :
              /\ Len(queries') >= Len(queries)
              /\ SubSeq(queries', 1, Len(queries)) = queries
              /\ brand \notin {"AMD", "Rise"} =>
                     /\ cpu'.easter_egg = <<>>
                     /\ \A i \in 1..Len(new) : new[i].leaf = LEAF_0
              /\ brand \in {"AMD", "Rise"} =>
                     /\ new # <<>>
                     /\ new[Len(new)].leaf
                            = (IF brand = "AMD" THEN U32(36863, 65535)
                                                ELSE U32(0, 23118))
                     /\ \A i \in 1..(Len(new) - 1) : new[i].leaf = LEAF_0
                     /\ cpu'.easter_egg = <<>>
                            <=> \A b \in { CallBytes(new[Len(new)])[i] :
                                             i \in 1..16 } :
                                    b = 0 \/ IsWhite(b)
                     /\ new[Len(new)].res.eax = WordAt(<<73, 84, 39, 83>>, 1)
                            => cpu'.easter_egg = <<"IT'S HAMMER TIME">>]_vars

\* easter_egg has returned None on an AMD processor whose leaf 0x8FFFFFFF
\* holds spaces, a tab and zero bytes
C19_Witness ==
    /\ pc = "brand_id"
    /\ has_cpuid /\ CpuBrand_detect.v = "AMD"
    /\ hw.egg = BlankEgg
    /\ queries[Len(queries)].leaf = EGG_LEAF_AMD
    /\ queries[Len(queries)].exec
    /\ cpu.easter_egg = <<>>

\* easter_egg has returned the string of leaf 0x00005A4E on a Rise processor
C19_WitnessRise ==
    /\ pc = "brand_id"
    /\ CpuBrand_detect.v = "Rise"
    /\ queries[Len(queries)].leaf = EGG_LEAF_RISE
    /\ cpu.easter_egg = <<"IT'S HAMMER TIME">>

\* C20: with the vendor string "AuthenticAMD" and the signature
\* extended_family 8, family 15, extended_model 1, model 1, stepping 0 yields
\* microarchitecture Zen with code name "RavenRidge"; any other stepping
\* with the same four fields yields the Unknown entry.
C20_RavenRidgeSteppingZeroOnly ==
    (Returned("AuthenticAMD") /\ SigIs(args.s, 8, 15, 1, 1)) =>
        IF args.s.stepping = 0
        THEN /\ ret[1].micro_arch = "Zen"
             /\ ret[1].code_name = "RavenRidge"
             /\ ret[1].technology = <<"14nm">>
        ELSE /\ ret[1].micro_arch = "Unknown"
             /\ ret[1].code_name = "Unknown"
             /\ ret[1].technology = <<>>

\* find has returned the Unknown entry for the AMD signature (8, 15, 1, 1)
\* with a stepping other than 0
C20_Witness ==
    /\ Returned("AuthenticAMD")
    /\ SigIs(args.s, 8, 15, 1, 1)
    /\ args.s.stepping = 2
    /\ ret[1].code_name = "Unknown"

\* find has returned Zen / RavenRidge for stepping 0
C20_WitnessZen ==
    /\ Returned("AuthenticAMD")
    /\ SigIs(args.s, 8, 15, 1, 1)
    /\ args.s.stepping = 0
    /\ ret[1].micro_arch = "Zen"

\* C21: with the vendor string "GenuineIntel" and the signature
\* extended_family 0, family 6, extended_model 0, model 1, find yields
\* microarchitecture P6Pro with code name "P6" for every stepping in
\* {1, 2, 6, 7, 8, 9}.
C21_PentiumProSteppings ==
    (Returned("GenuineIntel") /\ SigIs(args.s, 0, 6, 0, 1)
         /\ args.s.stepping \in {1, 2, 6, 7, 8, 9}) =>
        /\ ret[1].micro_arch = "P6Pro"
        /\ ret[1].code_name = "P6"
        /\ ret[1].brand_name = "Intel"

\* find has returned P6Pro / "P6" for stepping 9, the last value the
\* half-open range pattern 6..10 accepts
C21_Witness ==
    /\ Returned("GenuineIntel")
    /\ SigIs(args.s, 0, 6, 0, 1)
    /\ args.s.stepping = 9
    /\ ret[1].micro_arch = "P6Pro"
    /\ ret[1].technology = <<"350nm">>

\* C22: after Cpu::new has returned, the display operations issue no
\* further hardware probe: display_model_string makes no CPUID query, no
\* EFLAGS toggle test and no divide test.
C22_DisplayProbesNothing ==
    pc = "displayed" => (shown.q = <<>> /\ shown.tests = <<>>)

\* the fixed order of the feature names
FeatureOrder ==
    << "FPU", "TSC", "CMPXCHG8B", "CMPXCHG16B", "CMOV", "MMX", "3DNow!",
       "3DNow+", "HT", "AMD64", "SSE", "SSE2", "SSE3", "SSE4A", "SSE4.1",
       "SSE4.2", "SSSE3", "AVX", "AVX2", "AVX512F", "FMA", "BMI1", "BMI2",
       "RDRAND", "POPCNT", "F16C" >>

\* the place of a name in the fixed order
OrderIndex(name) == CHOOSE k \in 1..Len(FeatureOrder) : FeatureOrder[k] = name

\* C23: the list get_feature_list returns is a subsequence of the fixed
\* name order: a name is in the list exactly when its has_* predicate is
\* true, no name appears twice, and no detected name is dropped for lack of
\* capacity.
C23_FeatureListIsOrderedSubsequence ==
    pc \in {"done", "displayed"} =>
        \E f \in {cpu.features}, tests \in {FeatureTests} :
            /\ Len(tests) = Len(FeatureOrder)
            /\ \A k \in 1..Len(tests) :
                   /\ tests[k].name = FeatureOrder[k]
                   /\ tests[k].has.v <=> FeatureOrder[k] \in FeatureNames
            /\ \A i \in 1..Len(f) :
                   \E k \in 1..Len(FeatureOrder) : FeatureOrder[k] = f[i]
            /\ \A i \in 1..Len(f), j \in 1..Len(f) :
                   i < j => OrderIndex(f[i]) < OrderIndex(f[j])
            /\ Len(f) = Cardinality({ k \in 1..Len(tests) : tests[k].has.v })

\* Cpu::new has returned a list of all twenty-six names
C23_Witness ==
    /\ pc = "done"
    /\ Len(cpu.features) = Len(FeatureOrder)
    /\ cpu.features[1] = "FPU" /\ cpu.features[14] = "SSE4A"
    /\ cpu.features[26] = "F16C"

\* Cpu::new has returned a list that leaves names of the order out
C23_WitnessPartial ==
    /\ pc = "done"
    /\ Len(cpu.features) = 18
    /\ cpu.features[7] = "HT"

ListedArchs ==
    { "Am486", "SSA5", "K5", "I486", "P5", "PentiumPro", "PentiumII",
      "PentiumIII", "Cy5x86", "M1", "M2", "U5S", "U5D" }

\* the names the last arm gives without a usable signature
ClassNames == { "Cyrix/IBM 486", "386 Class CPU", "486 Class CPU" }

\* the table and fallback part of the precedence, for the CpuArch a of cpu
TableThenFallback(a) ==
    /\ (a.micro_arch = "Am486" /\ a.code_name = "Am486DX2")
           => shown.v = "AMD 486 DX2"
    /\ (a.micro_arch = "I486" /\ a.code_name = "i80486DX")
           => shown.v = "Intel 486 DX"
    /\ a.micro_arch = "U5S" => shown.v = "UMC Green CPU 486 U5-SX"
    /\ a.micro_arch \in ListedArchs => shown.v # "Unknown"
    /\ a.micro_arch \notin ListedArchs =>
           IF cpu.signature = CpuSignatureDefault \/ ~has_cpuid
           THEN shown.v \in ClassNames
           ELSE shown.v = "Unknown"

\* C25 as stated: display_model_string shows the CPUID model string when it
\* is not "Unknown"; otherwise the name of the microarchitecture/codename
\* table; otherwise, for an unlisted microarchitecture, one of the three
\* class names if the signature is the all-zero default or CPUID is
\* unsupported, and "Unknown" only when the signature is non-zero and CPUID
\* is supported.
C25_ModelThenTableThenFallback ==
    pc = "displayed" =>
        \E a \in {cpu.arch[1]} :
            /\ a.model # "Unknown" => shown.v = a.model
            /\ a.model = "Unknown" => TableThenFallback(a)

\* the brand id display_model_string reads for an Intel vendor string
ReadBrandId == IF has_cpuid THEN hw.leaf1.ebx[2] % 256 ELSE 0

\* the Intel brand-index table gives a name for the Cpu value cpu
BrandIndexApplies ==
    /\ cpu.arch[1].vendor_string = "GenuineIntel"
    /\ ReadBrandId \in {1, 2, 3, 4, 6, 7, 8, 9, 10, 11, 12, 14, 15, 17, 18,
                        19, 20, 21, 22, 23}
    /\ cpu.signature.family < 15
           \/ (cpu.signature.family = 15 /\ cpu.signature.model < 3)

\* C25 amended: between the CPUID model string and the
\* microarchitecture/codename table comes the Intel brand index: with the
\* model string "Unknown" and the vendor string "GenuineIntel", a brand id
\* the table of intel_brand_index lists is shown by its name, whatever the
\* microarchitecture is; the table and the fallback apply in every other
\* case.
C25_ModelThenBrandIndexThenTable ==
    pc = "displayed" =>
        \E a \in {cpu.arch[1]} :
            /\ a.model # "Unknown" =>
                   (shown.v = a.model /\ shown.q = <<>> /\ shown.tests = <<>>)
            /\ (a.model = "Unknown" /\ BrandIndexApplies) =>
                   /\ shown.v = BrandIndexName(ReadBrandId,
                                    cpu.signature.family, cpu.signature.model,
                                    cpu.signature.stepping)[1]
                   /\ (ReadBrandId = 2)
                          => shown.v = "Intel(R) Pentium(R) III processor"
            /\ (a.model = "Unknown" /\ ~BrandIndexApplies) =>
                   TableThenFallback(a)

\* display_model_string has shown the brand-index name of an Intel
\* Pentium III (family 6, model 8, brand id 2) without a CPUID model string
C25_Witness ==
    /\ pc = "displayed"
    /\ cpu.arch[1].model = "Unknown"
    /\ cpu.arch[1].micro_arch = "P6PentiumIII"
    /\ cpu.signature.family = 6 /\ cpu.signature.model = 8
    /\ has_cpuid /\ ReadBrandId = 2
    /\ shown.v = "Intel(R) Pentium(R) III processor"

\* display_model_string has shown a name of the table
C25_WitnessTable ==
    /\ pc = "displayed"
    /\ cpu.arch[1].model = "Unknown"
    /\ cpu.arch[1].micro_arch = "Am486"
    /\ shown.v = "AMD 486 DX2"

\* display_model_string has shown "Unknown" for an unlisted
\* microarchitecture
C25_WitnessUnknown ==
    /\ pc = "displayed"
    /\ cpu.arch[1].model = "Unknown"
    /\ cpu.arch[1].micro_arch = "P6PentiumIII"
    /\ ~BrandIndexApplies
    /\ shown.v = "Unknown"

\* the query queries[i] of leaf was made after a query of the leaf maxleaf
\* that returned a maximum at least as large as leaf
ReadMaximumFirst(i, maxleaf) ==
    \E j \in 1..(i - 1) :
        /\ queries[j].leaf = maxleaf
        /\ ~Lt32(queries[j].res.eax, queries[i].leaf)

\* C26: during Cpu::new every query of a standard leaf other than 0 and
\* 0x80000000 is issued only after the corresponding maximum leaf has been
\* read and found at least as large as the leaf queried; in particular
\* leaf 1 is never queried on a processor whose leaf 0 reports maximum basic
\* leaf 0.
C26_QueriesWithinReadMaximum ==
    /\ \A i \in 1..Len(queries) :
           /\ (queries[i].exec /\ queries[i].leaf \in {LEAF_1, LEAF_7})
                  => ReadMaximumFirst(i, LEAF_0)
           /\ (queries[i].exec
                  /\ queries[i].leaf \in {EXT_LEAF_1, EXT_LEAF_2, EXT_LEAF_3,
                                          EXT_LEAF_4})
                  => ReadMaximumFirst(i, EXT_LEAF_0)
    /\ (has_cpuid /\ hw.max_leaf = Zero32) =>
           \A i \in 1..Len(queries) : queries[i].leaf # LEAF_1

\* the flags of the call differ from the flags before it in status flags
\* only
OnlyStatusFlagsChanged ==
    ret[1].eflags \ StatusFlags = args.eflags \ StatusFlags

\* C27 as stated: on 32-bit x86 has_cpuid returns true exactly when the
\* toggle of EFLAGS bit 21 persists on read-back, and leaves EFLAGS equal to
\* its value before the call; on x86_64 has_cpuid returns true and is_cyrix
\* returns false, without touching the flags.
C27_HasCpuidLeavesEflags ==
    (pc = "returned" /\ args.fn = "has_cpuid") =>
        /\ hw.arch = "x86" =>
               /\ ret[1].v <=> hw.id_flag
               /\ ret[1].eflags = args.eflags
        /\ hw.arch = "x86_64" => (ret[1].v /\ ret[1].eflags = args.eflags)

\* C27 amended: on 32-bit x86 has_cpuid returns true exactly when the
\* toggle of bit 21 persists, and leaves every bit of EFLAGS but the status
\* flags CF, PF, AF, ZF, SF, OF equal to its value before the call (the
\* final xor / and set those: CF, OF, SF clear, PF set, ZF set exactly when
\* the result is false); on x86_64 has_cpuid returns true and is_cyrix
\* false, without touching the flags.
C27_HasCpuidRestoresAllButStatusFlags ==
    pc = "returned" =>
        /\ (args.fn = "has_cpuid" /\ hw.arch = "x86") =>
               /\ ret[1].v <=> hw.id_flag
               /\ ret[1].v = has_cpuid
               /\ OnlyStatusFlagsChanged
               /\ (21 \in ret[1].eflags) <=> (21 \in args.eflags)
               /\ ret[1].eflags \cap {0, 7, 11} = {}
               /\ 2 \in ret[1].eflags
               /\ (6 \in ret[1].eflags) <=> ~ret[1].v
        /\ (args.fn = "has_cpuid" /\ hw.arch = "x86_64") =>
               (ret[1].v /\ ret[1].eflags = args.eflags)
        /\ (args.fn = "is_cyrix" /\ hw.arch = "x86_64") =>
               (~ret[1].v /\ ret[1].eflags = args.eflags)
        /\ (args.fn = "is_cyrix" /\ hw.arch = "x86") =>
               (ret[1].v = is_cyrix /\ OnlyStatusFlagsChanged)

\* has_cpuid has returned true on x86 with the carry flag, set before the
\* call, cleared and the ID bit as it was
C27_Witness ==
    /\ pc = "returned"
    /\ args.fn = "has_cpuid"
    /\ hw.arch = "x86"
    /\ ret[1].v
    /\ 0 \in args.eflags /\ 0 \notin ret[1].eflags
    /\ 21 \in args.eflags /\ 21 \in ret[1].eflags

\* has_cpuid has returned false on x86
C27_WitnessNoCpuid ==
    /\ pc = "returned"
    /\ args.fn = "has_cpuid"
    /\ hw.arch = "x86"
    /\ ~ret[1].v

\* C28: the microarchitecture CpuArch::find returns belongs to the lineage
\* of the resolved vendor: with the UMC identifying string it is U5D, U5S or
\* Unknown and never Crusoe or Efficeon, with the Transmeta identifying
\* string it is Crusoe, Efficeon or Unknown and never U5D or U5S, for every
\* signature.
C28_FindStaysInVendorLineage ==
    (pc = "returned" /\ args.fn = "find") =>
        /\ args.vendor_string = VENDOR_UMC =>
               ret[1].micro_arch \in {"U5D", "U5S", "Unknown"}
        /\ args.vendor_string = VENDOR_TRANSMETA =>
               ret[1].micro_arch \in {"Crusoe", "Efficeon", "Unknown"}

\* the fields of a Midr put back at their offsets
Reencode(d) ==
    ShlBits(d.implementer, IMPLEMENTER_OFFSET)
        \cup ShlBits(d.variant, VARIANT_OFFSET)
        \cup ShlBits(d.architecture, ARCHITECTURE_OFFSET)
        \cup ShlBits(d.part, PART_OFFSET)
        \cup ShlBits(d.revision, REVISION_OFFSET)

\* C29: on macOS the synthesized MIDR carries hw.cpufamily in the
\* implementer field (bits 24-31) and the part-number field (bits 4-15)
\* only: Midr::new of it has variant 0, architecture 0 and revision 0 for
\* every cpufamily value, and every field 0 when the sysctl call fails.
C29_MacosMidrFillsImplementerAndPartOnly ==
    (pc = "returned" /\ args.os = "macos") =>
        /\ ret[1].midr.variant = {}
        /\ ret[1].midr.architecture = {}
        /\ ret[1].midr.revision = {}
        /\ ret[1].raw_midr \subseteq ((24..31) \cup (4..15))
        /\ args.sysctl # 0 =>
               /\ ret[1].midr.implementer = {}
               /\ ret[1].midr.part = {}

\* C30: for every 32-bit MIDR value m, the implementer, variant,
\* architecture, part and revision of Midr::new(m) re-encode at offsets 24,
\* 20, 16, 4 and 0 to exactly m, and the implementer, variant, part_number
\* and revision the arm Cpu::new computes by shift and mask equal the
\* corresponding Midr fields.
C30_MidrDecodingIsLossless ==
    pc = "returned" =>
        /\ ret[1].raw_midr \subseteq 0..31
        /\ ret[1].raw_midr = get_midr(args)
        /\ Reencode(ret[1].midr) = ret[1].raw_midr
        /\ ret[1].implementer = ret[1].midr.implementer
        /\ ret[1].variant = ret[1].midr.variant
        /\ ret[1].part_number = ret[1].midr.part
        /\ ret[1].revision = ret[1].midr.revision

\* Cpu::new has decoded the Cortex-A72 register value 0x410FD083, every
\* field but the variant non-zero
C30_Witness ==
    /\ pc = "returned"
    /\ args.os = "linux"
    /\ ret[1].raw_midr = BitsOf(16655, 53379)
    /\ ret[1].midr.implementer = BitsOf(0, 65)
    /\ ret[1].midr.variant = {}
    /\ ret[1].midr.architecture = BitsOf(0, 15)
    /\ ret[1].part_number = BitsOf(0, 3336)
    /\ ret[1].revision = BitsOf(0, 3)

\* Cpu::new has decoded a value with all five fields non-zero
C30_WitnessAllFields ==
    /\ pc = "returned"
    /\ ret[1].midr.variant # {}
    /\ ret[1].midr.architecture # {}
    /\ ret[1].implementer # {}
    /\ ret[1].part_number # {}
    /\ ret[1].revision # {}

=============================================================================
